---- MODULE Spec2Model ----
(***************************************************************************)
(* Cloud cost optimizer: the rightsizing decision, the cost analyzer, the   *)
(* recommendation engine and the collectors.                               *)
(*                                                                         *)
(* Units.  Money is counted in mills (1/1000 of a dollar), so that every   *)
(* amount of the source (0.008 $/h, 5.76 $/month, 0.026 $/GB) is an        *)
(* integer.  vCPUs are counted in quarters (0.25 vCPU = 1).  Utilization    *)
(* percentages are counted in tenths of a percent (20% = 200), the         *)
(* precision of the metrics the analyzer produces.  Other percentages are  *)
(* integers; a percentage rounded to d decimals is kept in units of 10^-d. *)
(* An optional dictionary key is a sequence: <<>> when the key is absent,  *)
(* <<v>> when it holds v.                                                  *)
(***************************************************************************)
EXTENDS Integers, Sequences, FiniteSets, TLC

\* Every dictionary key of the model with the dictionary it belongs to.  A
\* record of the model lists its keys in this order, the alphabetical one.
DictKeys ==
    [absolute_change |-> "comparison result",
     active_resources |-> "efficiency result",
     automatable_recommendations |-> "summary",
     automation_percentage |-> "summary",
     automation_possible |-> "recommendation",
     average_cost |-> "anomaly",
     avg_cpu |-> "utilization",
     avg_cpu_utilization |-> "utilization data",
     avg_memory |-> "utilization",
     avg_memory_utilization |-> "utilization data",
     billing_account_id |-> "config",
     billing_data |-> "call",
     breakdown |-> "trend result",
     collection_date |-> "billing record",
     confidence |-> "recommendation",
     contacted |-> "outcome",
     cost |-> "billing record",
     cost_per_hour |-> "machine spec",
     count |-> "summary",
     current_data |-> "call",
     current_monthly_cost |-> "rightsizing recommendation",
     current_period_cost |-> "comparison result",
     current_type |-> "rightsizing recommendation",
     data_points |-> "utilization data",
     data_quality |-> "utilization data",
     data_source |-> "rightsizing recommendation",
     date |-> "billing record",
     deviation_percentage |-> "anomaly",
     efficiency_grade |-> "efficiency result",
     estimated_monthly_increase |-> "recommendation",
     estimated_monthly_savings |-> "recommendation",
     fn |-> "call",
     forecast_days |-> "call",
     forecast_period_days |-> "forecast result",
     forecasted_total |-> "forecast result",
     historical_daily_average |-> "forecast result",
     historical_data |-> "call",
     idle_resources |-> "efficiency result",
     instance |-> "call",
     instance_name |-> "rightsizing recommendation",
     kind |-> "result",
     logged |-> "outcome",
     machine_type |-> "input record",
     memory_gb |-> "machine spec",
     message |-> "result",
     method |-> "forecast result",
     name |-> "input record",
     net_annual_impact |-> "summary",
     net_monthly_impact |-> "summary",
     peak_cpu |-> "utilization",
     peak_cpu_utilization |-> "utilization data",
     peak_memory |-> "utilization",
     peak_memory_utilization |-> "utilization data",
     percentage |-> "trend result",
     percentage_change |-> "comparison result",
     previous_data |-> "call",
     previous_period_cost |-> "comparison result",
     priority |-> "recommendation",
     project_id |-> "config",
     priority_label |-> "recommendation",
     rank |-> "recommendation",
     recommendation_type |-> "rightsizing recommendation",
     recommendations_by_priority |-> "summary",
     recommendations_by_type |-> "summary",
     recommended_monthly_cost |-> "rightsizing recommendation",
     recommended_type |-> "rightsizing recommendation",
     resource_name |-> "recommendation",
     resource_type |-> "recommendation",
     resources |-> "call",
     risk_level |-> "recommendation",
     service_account_path |-> "config",
     service_name |-> "billing record",
     severity |-> "anomaly",
     size_gb |-> "input record",
     stage |-> "outcome",
     status |-> "result",
     threshold_percentage |-> "call",
     top_cost_driver |-> "trend result",
     total_annual_savings |-> "summary",
     total_cost |-> "trend result",
     total_increase |-> "summary",
     total_monthly_increases |-> "summary",
     total_monthly_savings |-> "summary",
     total_recommendations |-> "summary",
     total_resources |-> "efficiency result",
     total_savings |-> "summary",
     trend |-> "comparison result",
     type |-> "recommendation",
     utilization_data |-> "call",
     utilization_metrics |-> "rightsizing recommendation",
     utilization_rate |-> "efficiency result",
     value |-> "result",
     vcpus |-> "machine spec"]

VARIABLES
    instance_type,    \* rightsizing: current_type handed to the decision
    metrics,          \* rightsizing: the four utilization percentages
    recommendation,   \* rightsizing: what _get_rightsizing_recommendation returned
    use_simulated_metrics, \* rightsizing: self.use_simulated_metrics
    hash_secret,      \* rightsizing: the str hash secret of the running process
    simulated,        \* rightsizing: every (instance name, metrics) that
                      \*   simulate_utilization_metrics has returned, in any process
    analysis,         \* rightsizing: the last analyze_instance call and its result
    call,             \* cost analyzer: the function called and its arguments
    result,           \* cost analyzer: what the call returned
    recommendations,  \* engine: self.recommendations
    returned,         \* engine: list returned by the call just made, as
                      \*   positions in recommendations (the same dict objects)
    lastOp,           \* engine: the operation just performed
    max_recommendations, \* engine: argument of the last get_prioritized_recommendations
    min_savings,      \* engine: argument of the last get_prioritized_recommendations
    summary,          \* engine: what the last get_summary_statistics returned
    added,            \* engine: the item each held recommendation was built from
    config,           \* collector: self.config
    required_fields,  \* collector: what get_required_config_fields returns
    credentials,      \* GCP collector: self.credentials is not None
    billing_client,   \* GCP collector: self.billing_client is not None
    asset_client,     \* GCP collector: self.asset_client is not None
    compute_client,   \* GCP collector: self.compute_client is not None
    authenticated,    \* GCP collector: some call of authenticate() returned True
    outcome           \* collector: the method just called and how it ended

decisionVars == <<instance_type, metrics, recommendation>>
simVars    == <<use_simulated_metrics, hash_secret, simulated, analysis>>
sizingVars == <<decisionVars, simVars>>
costVars   == <<call, result>>
engineVars == <<recommendations, returned, lastOp, max_recommendations,
                min_savings, summary, added>>
clientVars == <<credentials, billing_client, asset_client, compute_client>>
collectorVars == <<config, required_fields, clientVars, authenticated, outcome>>
vars == <<instance_type, metrics, recommendation,
          use_simulated_metrics, hash_secret, simulated, analysis, call, result,
          recommendations, returned, lastOp, max_recommendations,
          min_savings, summary, added,
          config, required_fields, credentials, billing_client, asset_client,
          compute_client, authenticated, outcome>>

----------------------------------------------------------------------------
(* Generic helpers                                                         *)

\* dict.get(key, default) on an optional field
Get(field, default) == IF field = <<>> THEN default ELSE field[1]

Abs(x) == IF x < 0 THEN -x ELSE x

RECURSIVE SumSeq(_)
SumSeq(s) == IF s = <<>> THEN 0 ELSE s[1] + SumSeq(Tail(s))

\* lexicographic comparison of two-component sort keys
KeyLeq(a, b) == a[1] < b[1] \/ (a[1] = b[1] /\ a[2] <= b[2])

\* one step of a stable insertion: position i goes after every position
\* already placed whose key is not greater
InsertStable(order, i, keys) ==
    LET n == Cardinality({j \in 1..Len(order) : KeyLeq(keys[order[j]], keys[i])})
    IN  SubSeq(order, 1, n) \o <<i>> \o SubSeq(order, n + 1, Len(order))

RECURSIVE SortedUpTo(_, _)
SortedUpTo(keys, n) ==
    IF n = 0 THEN <<>> ELSE InsertStable(SortedUpTo(keys, n - 1), n, keys)

\* sorted(seq, key=...): the positions of keys in ascending key order, equal
\* keys in their original order (Python's sort is stable)
sorted(keys) == SortedUpTo(keys, Len(keys))

\* the positions kept by a comprehension's condition, in order: keeps[k] tells
\* whether the k-th element passes
RECURSIVE FilterIdx(_, _)
FilterIdx(keeps, n) ==
    IF n = 0 THEN <<>>
    ELSE IF keeps[n] THEN Append(FilterIdx(keeps, n - 1), n)
         ELSE FilterIdx(keeps, n - 1)

\* lst[:n] of Python, n an integer (a negative n drops -n items from the end)
SliceTo(lst, n) ==
    IF n >= 0 THEN SubSeq(lst, 1, IF n < Len(lst) THEN n ELSE Len(lst))
    ELSE SubSeq(lst, 1, IF Len(lst) + n > 0 THEN Len(lst) + n ELSE 0)

----------------------------------------------------------------------------
(* Rightsizing analyzer                                                    *)

\* the catalog, in dictionary (insertion) order
MACHINE_TYPES == <<
    [cost_per_hour |-> 8,   memory_gb |-> 1,  name |-> "e2-micro",      vcpus |-> 1],
    [cost_per_hour |-> 16,  memory_gb |-> 2,  name |-> "e2-small",      vcpus |-> 2],
    [cost_per_hour |-> 33,  memory_gb |-> 4,  name |-> "e2-medium",     vcpus |-> 4],
    [cost_per_hour |-> 67,  memory_gb |-> 8,  name |-> "e2-standard-2", vcpus |-> 8],
    [cost_per_hour |-> 134, memory_gb |-> 16, name |-> "e2-standard-4", vcpus |-> 16],
    [cost_per_hour |-> 268, memory_gb |-> 32, name |-> "e2-standard-8", vcpus |-> 32],
    [cost_per_hour |-> 97,  memory_gb |-> 8,  name |-> "n2-standard-2", vcpus |-> 8],
    [cost_per_hour |-> 194, memory_gb |-> 16, name |-> "n2-standard-4", vcpus |-> 16],
    [cost_per_hour |-> 388, memory_gb |-> 32, name |-> "n2-standard-8", vcpus |-> 32],
    [cost_per_hour |-> 131, memory_gb |-> 16, name |-> "n2-highmem-2",  vcpus |-> 8],
    [cost_per_hour |-> 262, memory_gb |-> 32, name |-> "n2-highmem-4",  vcpus |-> 16],
    [cost_per_hour |-> 72,  memory_gb |-> 2,  name |-> "n2-highcpu-2",  vcpus |-> 8],
    [cost_per_hour |-> 144, memory_gb |-> 4,  name |-> "n2-highcpu-4",  vcpus |-> 16] >>

MachineTypeNames == {MACHINE_TYPES[i].name : i \in 1..Len(MACHINE_TYPES)}

\* self.MACHINE_TYPES[name]
SpecOf(name) ==
    MACHINE_TYPES[CHOOSE i \in 1..Len(MACHINE_TYPES) : MACHINE_TYPES[i].name = name]

\* candidates.sort(key=lambda x: x[1]); candidates[0][0], or None (<<>>)
CheapestOf(candidates) ==
    IF candidates = <<>> THEN <<>>
    ELSE LET keys  == [k \in 1..Len(candidates) |->
                          <<MACHINE_TYPES[candidates[k]].cost_per_hour, 0>>]
             order == sorted(keys)
         IN  <<MACHINE_TYPES[candidates[order[1]]].name>>

\* required = current * peak / 100 * 1.2 with peak in tenths of a percent,
\* compared as spec * 10000 >= current * peak * 12
FindSmallerNoBuffer(current_spec, peak_cpu, peak_memory) ==
    LET Fits(s) == /\ s.vcpus * 1000 >= current_spec.vcpus * peak_cpu
                   /\ s.memory_gb * 1000 >= current_spec.memory_gb * peak_memory
                   /\ s.cost_per_hour < current_spec.cost_per_hour
    IN  CheapestOf(FilterIdx([k \in 1..Len(MACHINE_TYPES) |-> Fits(MACHINE_TYPES[k])],
                             Len(MACHINE_TYPES)))

_find_smaller_instance(current_spec, peak_cpu, peak_memory) ==
    LET Fits(s) == /\ s.vcpus * 10000 >= current_spec.vcpus * peak_cpu * 12
                   /\ s.memory_gb * 10000 >= current_spec.memory_gb * peak_memory * 12
                   /\ s.cost_per_hour < current_spec.cost_per_hour
    IN  CheapestOf(FilterIdx([k \in 1..Len(MACHINE_TYPES) |-> Fits(MACHINE_TYPES[k])],
                             Len(MACHINE_TYPES)))

\* multiplier 1.5 (3/2) on a dimension whose peak is above 90, else 1.0
FindLargerCpuOnly(current_spec, peak_cpu, peak_memory) ==
    LET cpu2 == IF peak_cpu > 900 THEN 3 ELSE 2
        mem2 == 2
        Fits(s) == /\ s.vcpus * 2 >= current_spec.vcpus * cpu2
                   /\ s.memory_gb * 2 >= current_spec.memory_gb * mem2
                   /\ s.cost_per_hour > current_spec.cost_per_hour
    IN  CheapestOf(FilterIdx([k \in 1..Len(MACHINE_TYPES) |-> Fits(MACHINE_TYPES[k])],
                             Len(MACHINE_TYPES)))

_find_larger_instance(current_spec, peak_cpu, peak_memory) ==
    LET cpu2 == IF peak_cpu > 900 THEN 3 ELSE 2
        mem2 == IF peak_memory > 900 THEN 3 ELSE 2
        Fits(s) == /\ s.vcpus * 2 >= current_spec.vcpus * cpu2
                   /\ s.memory_gb * 2 >= current_spec.memory_gb * mem2
                   /\ s.cost_per_hour > current_spec.cost_per_hour
    IN  CheapestOf(FilterIdx([k \in 1..Len(MACHINE_TYPES) |-> Fits(MACHINE_TYPES[k])],
                             Len(MACHINE_TYPES)))

\* the two conditions of the decision, as written in the if / elif
\* (20, 30, 40 and 90 percent)
DownsizeTrigger(avg_cpu, avg_memory, peak_cpu) ==
    avg_cpu < 200 /\ avg_memory < 300 /\ peak_cpu < 400

UpsizeTrigger(peak_cpu, peak_memory) ==
    peak_cpu > 900 \/ peak_memory > 900

NoRecommendation == [recommendation_type |-> "none"]

_get_rightsizing_recommendation(current_type, avg_cpu, avg_memory, peak_cpu, peak_memory) ==
    LET current_spec == SpecOf(current_type)
        monthly_current == current_spec.cost_per_hour * 24 * 30
        util == [avg_cpu |-> avg_cpu, avg_memory |-> avg_memory,
                 peak_cpu |-> peak_cpu, peak_memory |-> peak_memory]
    IN  IF DownsizeTrigger(avg_cpu, avg_memory, peak_cpu) THEN
            LET recommended_type ==
                    _find_smaller_instance(current_spec, peak_cpu, peak_memory)
            IN  IF recommended_type # <<>> /\ recommended_type[1] # current_type THEN
                    LET monthly_new == SpecOf(recommended_type[1]).cost_per_hour * 24 * 30
                    IN  [confidence |-> IF avg_cpu < 100 THEN "medium" ELSE "low",
                         current_monthly_cost |-> monthly_current,
                         estimated_monthly_increase |-> <<>>,
                         estimated_monthly_savings |-> <<monthly_current - monthly_new>>,
                         recommendation_type |-> "downsize",
                         recommended_monthly_cost |-> monthly_new,
                         recommended_type |-> recommended_type[1],
                         utilization_metrics |-> util]
                ELSE NoRecommendation
        ELSE IF UpsizeTrigger(peak_cpu, peak_memory) THEN
            LET recommended_type ==
                    _find_larger_instance(current_spec, peak_cpu, peak_memory)
            IN  IF recommended_type # <<>> /\ recommended_type[1] # current_type THEN
                    LET monthly_new == SpecOf(recommended_type[1]).cost_per_hour * 24 * 30
                    IN  [confidence |-> "medium",
                         current_monthly_cost |-> monthly_current,
                         estimated_monthly_increase |-> <<monthly_new - monthly_current>>,
                         estimated_monthly_savings |-> <<>>,
                         recommendation_type |-> "upsize",
                         recommended_monthly_cost |-> monthly_new,
                         recommended_type |-> recommended_type[1],
                         utilization_metrics |-> util]
                ELSE NoRecommendation
        ELSE NoRecommendation

\* utilization percentages tried: a grid over [0, 100] with the values on
\* both sides of every threshold of the decision
AvgCpuValues    == {10 * v : v \in {0, 5, 9, 10, 15, 19, 20, 50, 100}}
AvgMemoryValues == {10 * v : v \in {0, 15, 29, 30, 60, 100}}
PeakValues      == {50 * k : k \in 0..20} \cup {390, 410, 890, 910}

NotAnalyzed == [recommendation_type |-> "not_analyzed"]
NoMetrics   == [avg_cpu |-> 0, avg_memory |-> 0, peak_cpu |-> 0, peak_memory |-> 0]

NoAnalysis == [fn |-> "none"]

\* an analyzer built with the default use_simulated_metrics=True, not used yet
AnalyzerIdle ==
    /\ instance_type = "e2-micro"
    /\ metrics = NoMetrics
    /\ recommendation = NotAnalyzed
    /\ use_simulated_metrics = TRUE
    /\ hash_secret = 1
    /\ simulated = {}
    /\ analysis = NoAnalysis

GetRightsizingRecommendation ==
    /\ recommendation' = _get_rightsizing_recommendation(
                             instance_type, metrics.avg_cpu, metrics.avg_memory,
                             metrics.peak_cpu, metrics.peak_memory)
    /\ UNCHANGED <<instance_type, metrics>>
    /\ UNCHANGED simVars
    /\ UNCHANGED costVars
    /\ UNCHANGED collectorVars
    /\ UNCHANGED engineVars

----------------------------------------------------------------------------
(* Cost analyzer                                                           *)
(*                                                                         *)
(* A billing record is [service_name, date, collection_date, cost]: the    *)
(* first three optional; cost is absent (<<>>), a number of dollars        *)
(* (<<n>>), or a text that float() rejects (<<n, "text">>, n unused).      *)
(* A date string is the sequence of its parts around 'T' ('Unknown' is     *)
(* <<"Unknown">>).  A dictionary result is a record whose key status is    *)
(* optional.                                                               *)

\* round(num / den, d) with num / den already scaled by 10^d: nearest
\* integer, a tie going to the even one
RoundHalfEven(num, den) ==
    LET a == Abs(num)
        d == Abs(den)
        q == a \div d
        r == a % d
        m == IF 2 * r < d THEN q
             ELSE IF 2 * r > d THEN q + 1
             ELSE IF q % 2 = 0 THEN q ELSE q + 1
    IN  IF (num < 0) # (den < 0) THEN -m ELSE m

\* float(record.get('cost', 0)) raises on a text
IsText(record) == Len(record.cost) = 2
float_cost(record) == Get(record.cost, 0)

\* record.get('date', record.get('collection_date', 'Unknown'))
DateStr(record) == Get(record.date, Get(record.collection_date, <<"Unknown">>))

\* date_str.split('T')[0]
DatePart(date_str) == date_str[1]

ErrorResult == [message |-> "exception", status |-> <<"error">>]

\* the keys of a defaultdict in insertion order: first occurrences of Key
\* (keys[k] is the key of the k-th record)
RECURSIVE KeysInOrder(_, _)
KeysInOrder(keys, n) ==
    IF n = 0 THEN <<>>
    ELSE LET before == KeysInOrder(keys, n - 1)
         IN  IF \E k \in 1..Len(before) : before[k] = keys[n]
             THEN before ELSE Append(before, keys[n])

\* sum of the costs of the records of data whose Key is key
RECURSIVE SumWhere(_, _, _, _)
SumWhere(data, keys, key, n) ==
    IF n = 0 THEN 0
    ELSE SumWhere(data, keys, key, n - 1)
         + (IF keys[n] = key THEN float_cost(data[n]) ELSE 0)

\* ---- analyze_cost_trends ----
GroupNameAlwaysUnknown(record) == "Unknown"

GroupName(record) == Get(record.service_name, "Unknown")

analyze_cost_trends(billing_data) ==
    IF billing_data = <<>> THEN
        [message |-> "No billing data available for analysis", status |-> <<"no_data">>]
    ELSE IF \E i \in 1..Len(billing_data) : IsText(billing_data[i]) THEN ErrorResult
    ELSE
        LET group_names == [k \in 1..Len(billing_data) |-> GroupName(billing_data[k])]
            names == KeysInOrder(group_names, Len(billing_data))
            grouped == [k \in 1..Len(names) |->
                           SumWhere(billing_data, group_names, names[k], Len(billing_data))]
            total_cost == SumSeq(grouped)
            \* sorted(..., key=cost, reverse=True): descending, stable
            order == sorted([k \in 1..Len(names) |-> <<-grouped[k], 0>>])
            cost_breakdown ==
                [k \in 1..Len(order) |->
                    [cost |-> grouped[order[k]] * 100,
                     name |-> names[order[k]],
                     percentage |-> IF total_cost > 0
                                    THEN RoundHalfEven(grouped[order[k]] * 10000, total_cost)
                                    ELSE 0]]
        IN  [breakdown |-> cost_breakdown,
             status |-> <<"success">>,
             top_cost_driver |-> IF cost_breakdown # <<>>
                                 THEN <<cost_breakdown[1].name>> ELSE <<>>,
             total_cost |-> total_cost * 100]

\* ---- compare_periods ----
RECURSIVE SumCosts(_)
SumCosts(data) ==
    IF data = <<>> THEN 0 ELSE float_cost(data[1]) + SumCosts(Tail(data))

\* percentage_change before rounding to 2 decimals is kept rounded here
PercentageChangeAlwaysHundred(current_total, previous_total) ==
    IF previous_total = 0
    THEN 10000
    ELSE RoundHalfEven((current_total - previous_total) * 10000, previous_total)

PercentageChange(current_total, previous_total) ==
    IF previous_total = 0
    THEN (IF current_total > 0 THEN 10000 ELSE 0)
    ELSE RoundHalfEven((current_total - previous_total) * 10000, previous_total)

compare_periods(current_data, previous_data) ==
    IF \/ \E i \in 1..Len(current_data) : IsText(current_data[i])
       \/ \E i \in 1..Len(previous_data) : IsText(previous_data[i])
    THEN ErrorResult
    ELSE
        LET current_total == SumCosts(current_data)
            previous_total == SumCosts(previous_data)
        IN  [absolute_change |-> (current_total - previous_total) * 100,
             current_period_cost |-> current_total * 100,
             percentage_change |-> PercentageChange(current_total, previous_total),
             previous_period_cost |-> previous_total * 100,
             status |-> <<>>,
             trend |-> IF current_total > previous_total
                       THEN "increasing" ELSE "decreasing"]

\* ---- identify_anomalies ----
HasDate(record) == DateStr(record) # <<"Unknown">>
DateOf(record) == DatePart(DateStr(record))

\* abs(deviation) as the code takes it
DeviationSigned(deviation) == deviation

DeviationSize(deviation) == Abs(deviation)

\* the number of binary digits of a positive integer
RECURSIVE BitLength(_)
BitLength(x) == IF x = 0 THEN 0 ELSE 1 + BitLength(x \div 2)

\* avg_cost = sum(costs) / len(costs) in binary floating point (53 digits) is
\* below the true mean: never for a mean the format holds (a whole number of
\* dollars, or halves and quarters of one); for a third, the digits of the
\* fraction alternate, and the first digit dropped decides
MeanRoundsDown(total, n) ==
    IF total % n = 0 \/ n # 3 THEN FALSE
    ELSE LET kept == 53 - BitLength(total \div 3)
         IN  IF total % 3 = 1 THEN kept % 2 = 0 ELSE kept % 2 = 1

\* the list the function returns; an exception leaves it as built so far
identify_anomalies(billing_data, threshold_percentage) ==
    LET dated == SelectSeq(billing_data, HasDate)
    IN  IF \E i \in 1..Len(dated) : IsText(dated[i]) THEN <<>>
        ELSE
            LET days == [k \in 1..Len(dated) |-> DateOf(dated[k])]
                dates == KeysInOrder(days, Len(dated))
                costs == [k \in 1..Len(dates) |->
                             SumWhere(dated, days, dates[k], Len(dated))]
                n == Len(dates)
                total == SumSeq(costs)
                \* deviation = (cost - avg) / avg * 100 with avg = total / n,
                \* compared exactly: (n * cost - total) * 100 against x * total
                \* a deviation that is exactly x comes out above x when the
                \* mean was rounded down and the cost is above it
                Exceeds(k, x) ==
                    /\ total > 0
                    /\ \/ DeviationSize((n * costs[k] - total) * 100) > x * total
                       \/ /\ (n * costs[k] - total) * 100 = x * total
                          /\ MeanRoundsDown(total, n)
                Flagged(k) == Exceeds(k, threshold_percentage)
                Anomaly(k) ==
                    [average_cost |-> RoundHalfEven(total * 100, n),
                     cost |-> costs[k] * 100,
                     date |-> dates[k],
                     deviation_percentage |->
                         IF total > 0
                         THEN RoundHalfEven((n * costs[k] - total) * 10000, total)
                         ELSE 0,
                     severity |-> IF Exceeds(k, 50) THEN "high" ELSE "medium"]
                RECURSIVE Collect(_)
                Collect(k) ==
                    IF k = 0 THEN <<>>
                    ELSE IF Flagged(k) THEN Append(Collect(k - 1), Anomaly(k))
                         ELSE Collect(k - 1)
            IN  IF n < 2 THEN <<>> ELSE Collect(n)

\* ---- generate_budget_forecast ----
\* r.get('date', r.get('collection_date', '')).split('T')[0]
ForecastDay(record) ==
    DatePart(Get(record.date, Get(record.collection_date, <<"">>)))

generate_budget_forecast(historical_data, forecast_days) ==
    IF historical_data = <<>> THEN
        [message |-> "Need historical data for forecasting",
         status |-> <<"insufficient_data">>]
    ELSE IF \E i \in 1..Len(historical_data) : IsText(historical_data[i])
    THEN ErrorResult
    ELSE
        LET total_cost == SumCosts(historical_data)
            counted == Cardinality({ForecastDay(historical_data[i]) :
                                       i \in 1..Len(historical_data)})
            days_in_data == IF counted = 0 THEN 1 ELSE counted
        IN  [confidence |-> "low",
             forecast_period_days |-> forecast_days,
             forecasted_total |->
                 RoundHalfEven(total_cost * forecast_days * 100, days_in_data),
             historical_daily_average |-> RoundHalfEven(total_cost * 100, days_in_data),
             method |-> "simple_moving_average",
             status |-> <<"success">>]

\* ---- calculate_resource_efficiency ----
EfficiencyGradeAbove(num, den) ==
    LET Above(x) == den # 0 /\ num * 100 > x * den
    IN  IF Above(90) THEN "A"
        ELSE IF Above(80) THEN "B"
        ELSE IF Above(70) THEN "C"
        ELSE IF Above(60) THEN "D"
        ELSE "F"

_get_efficiency_grade(num, den) ==
    \* utilization_rate = num / den * 100 (0 when den = 0), compared unrounded
    LET AtLeast(x) == den # 0 /\ num * 100 >= x * den
    IN  IF AtLeast(90) THEN "A"
        ELSE IF AtLeast(80) THEN "B"
        ELSE IF AtLeast(70) THEN "C"
        ELSE IF AtLeast(60) THEN "D"
        ELSE "F"

\* resources and idle_resources are optional lists: <<>> is None, on which
\* len() raises
calculate_resource_efficiency(resources, idle_resources) ==
    IF resources = <<>> \/ idle_resources = <<>> THEN ErrorResult
    ELSE
        LET total_resources == Len(resources[1])
            idle_count == Len(idle_resources[1])
        IN  [active_resources |-> total_resources - idle_count,
             efficiency_grade |->
                 _get_efficiency_grade(total_resources - idle_count, total_resources),
             idle_resources |-> idle_count,
             status |-> <<>>,
             total_resources |-> total_resources,
             utilization_rate |->
                 IF total_resources = 0 THEN 0
                 ELSE RoundHalfEven((total_resources - idle_count) * 10000,
                                    total_resources)]

----------------------------------------------------------------------------
(* Recommendation engine                                                   *)
(*                                                                         *)
(* A priority is the value of its RecommendationPriority member.  A text   *)
(* that the code searches for a word is the sequence of its characters.    *)

CRITICAL == 1
HIGH     == 2
MEDIUM   == 3
LOW      == 4

\* RecommendationPriority(value).name
PriorityName(value) ==
    CASE value = 1 -> "CRITICAL"
      [] value = 2 -> "HIGH"
      [] value = 3 -> "MEDIUM"
      [] OTHER     -> "LOW"

\* word in text
Occurs(word, text) ==
    \E i \in 1..Len(text) :
        i + Len(word) - 1 <= Len(text) /\ SubSeq(text, i, i + Len(word) - 1) = word

\* text.lower(), for the letters the resource types use
LowerChar(c) ==
    CASE c = "D" -> "d" [] c = "I" -> "i" [] c = "P" -> "p"
      [] c = "S" -> "s" [] c = "A" -> "a" [] OTHER -> c

lower(text) == [i \in 1..Len(text) |-> LowerChar(text[i])]

\* machine_type.split('/')[-1] of a path given as its segments ('' when absent)
LastSegment(path) == IF path = <<>> THEN "" ELSE path[Len(path)]

EstimateInstanceCostFlat(instance) == 50000

_estimate_instance_cost(instance) ==
    LET machine_type == LastSegment(instance.machine_type)
    IN  CASE machine_type = "e2-micro"      -> 5760
          [] machine_type = "e2-small"      -> 11520
          [] machine_type = "e2-medium"     -> 23760
          [] machine_type = "e2-standard-2" -> 48240
          [] machine_type = "e2-standard-4" -> 96480
          [] machine_type = "n2-standard-2" -> 69840
          [] machine_type = "n2-standard-4" -> 139680
          [] OTHER                          -> 50000

_estimate_resource_cost(resource) ==
    LET resource_type == lower(Get(resource.type, <<>>))
    IN  IF Occurs(<<"d", "i", "s", "k">>, resource_type)
        THEN Get(resource.size_gb, 100) * 40
        ELSE IF Occurs(<<"i", "p">>, resource_type)
        THEN 7000
        ELSE IF Occurs(<<"s", "n", "a", "p", "s", "h", "o", "t">>, resource_type)
        THEN Get(resource.size_gb, 50) * 26
        ELSE 10000

CalculatePriorityIgnoringConfidence(monthly_savings, confidence) ==
    IF monthly_savings > 500000 THEN CRITICAL
    ELSE IF monthly_savings > 100000 THEN HIGH
    ELSE IF monthly_savings > 20000 THEN MEDIUM
    ELSE LOW

_calculate_priority(monthly_savings, confidence) ==
    IF monthly_savings > 500000 /\ confidence \in {"high", "medium"} THEN CRITICAL
    ELSE IF monthly_savings > 100000 THEN HIGH
    ELSE IF monthly_savings > 20000 THEN MEDIUM
    ELSE LOW

\* the dict each add_* builds; rank and priority_label are not set yet
IdleRec(instance) ==
    LET estimated_monthly_cost == _estimate_instance_cost(instance)
    IN  [automation_possible |-> TRUE,
         confidence |-> "high",
         estimated_monthly_increase |-> <<>>,
         estimated_monthly_savings |-> <<estimated_monthly_cost>>,
         priority |-> IF estimated_monthly_cost > 100000 THEN HIGH ELSE MEDIUM,
         priority_label |-> <<>>,
         rank |-> <<>>,
         resource_name |-> instance.name,
         resource_type |-> <<"c", "o", "m", "p", "u", "t", "e">>,
         risk_level |-> "low",
         type |-> "idle_instance"]

RightsizingRecIncreaseAsSavings(rec) ==
    [automation_possible |-> TRUE,
     confidence |-> Get(rec.confidence, "low"),
     estimated_monthly_increase |-> <<Get(rec.estimated_monthly_increase, 0)>>,
     estimated_monthly_savings |->
         <<IF rec.estimated_monthly_savings = <<>>
           THEN Get(rec.estimated_monthly_increase, 0)
           ELSE rec.estimated_monthly_savings[1]>>,
     priority |-> _calculate_priority(Get(rec.estimated_monthly_savings, 0),
                                      Get(rec.confidence, "low")),
     priority_label |-> <<>>,
     rank |-> <<>>,
     resource_name |-> rec.instance_name,
     resource_type |-> <<"c", "o", "m", "p", "u", "t", "e">>,
     risk_level |-> IF rec.recommendation_type = "downsize" THEN "medium" ELSE "low",
     type |-> "rightsizing"]

RightsizingRec(rec) ==
    [automation_possible |-> TRUE,
     confidence |-> Get(rec.confidence, "low"),
     estimated_monthly_increase |-> <<Get(rec.estimated_monthly_increase, 0)>>,
     estimated_monthly_savings |-> <<Get(rec.estimated_monthly_savings, 0)>>,
     priority |-> _calculate_priority(Get(rec.estimated_monthly_savings, 0),
                                      Get(rec.confidence, "low")),
     priority_label |-> <<>>,
     rank |-> <<>>,
     resource_name |-> rec.instance_name,
     resource_type |-> <<"c", "o", "m", "p", "u", "t", "e">>,
     risk_level |-> IF rec.recommendation_type = "downsize" THEN "medium" ELSE "low",
     type |-> "rightsizing"]

UnusedRec(resource) ==
    LET rtype == Get(resource.type, <<"u", "n", "k", "n", "o", "w", "n">>)
        estimated_cost == _estimate_resource_cost(resource)
    IN  [automation_possible |-> TRUE,
         confidence |-> "high",
         estimated_monthly_increase |-> <<>>,
         estimated_monthly_savings |-> <<estimated_cost>>,
         priority |-> IF estimated_cost > 50000 THEN MEDIUM ELSE LOW,
         priority_label |-> <<>>,
         rank |-> <<>>,
         resource_name |-> resource.name,
         resource_type |-> rtype,
         risk_level |-> IF Occurs(<<"s", "n", "a", "p", "s", "h", "o", "t">>, rtype)
                        THEN "low" ELSE "medium",
         type |-> "unused_resource"]

AnomalyRecAlwaysHigh(anomaly) ==
    [automation_possible |-> FALSE,
     confidence |-> "medium",
     estimated_monthly_increase |-> <<>>,
     estimated_monthly_savings |-> <<>>,
     priority |-> HIGH,
     priority_label |-> <<>>,
     rank |-> <<>>,
     resource_name |-> anomaly.date,
     resource_type |-> <<"b", "i", "l", "l", "i", "n", "g">>,
     risk_level |-> "none",
     type |-> "cost_anomaly"]

AnomalyRec(anomaly) ==
    LET severity == Get(anomaly.severity, "medium")
    IN  [automation_possible |-> FALSE,
         confidence |-> "medium",
         estimated_monthly_increase |-> <<>>,
         estimated_monthly_savings |-> <<>>,
         priority |-> IF severity = "high" THEN CRITICAL ELSE HIGH,
         priority_label |-> <<>>,
         rank |-> <<>>,
         resource_name |-> anomaly.date,
         resource_type |-> <<"b", "i", "l", "l", "i", "n", "g">>,
         risk_level |-> "none",
         type |-> "cost_anomaly"]

\* rec.get('estimated_monthly_savings', 0)
SavingsOf(rec) == Get(rec.estimated_monthly_savings, 0)

\* the key of the sort: (priority value, -savings)
SortKeyAscendingSavings(rec) == <<rec.priority, SavingsOf(rec)>>

SortKey(rec) == <<rec.priority, -SavingsOf(rec)>>

\* if max_recommendations: sorted_recs = sorted_recs[:max_recommendations]
\* (max_recommendations is optional: <<>> is None)
Truncate(sorted_recs, maxArg) ==
    IF maxArg # <<>> /\ maxArg[1] # 0
    THEN SliceTo(sorted_recs, maxArg[1]) ELSE sorted_recs

\* the positions in self.recommendations of the list the call returns
PrioritizedPositionsAbove(recs, maxArg, minArg) ==
    LET Keeps(rec) == SavingsOf(rec) > minArg
        filtered == FilterIdx([k \in 1..Len(recs) |-> Keeps(recs[k])], Len(recs))
        order == sorted([k \in 1..Len(filtered) |-> SortKey(recs[filtered[k]])])
        sorted_recs == [k \in 1..Len(order) |-> filtered[order[k]]]
    IN  Truncate(sorted_recs, maxArg)

PrioritizedPositions(recs, maxArg, minArg) ==
    LET Keeps(rec) == SavingsOf(rec) >= minArg
        filtered == FilterIdx([k \in 1..Len(recs) |-> Keeps(recs[k])], Len(recs))
        order == sorted([k \in 1..Len(filtered) |-> SortKey(recs[filtered[k]])])
        sorted_recs == [k \in 1..Len(order) |-> filtered[order[k]]]
    IN  Truncate(sorted_recs, maxArg)

\* for i, rec in enumerate(sorted_recs, 1): the dicts are those of the engine
RankAccumulating(recs, positions) ==
    [p \in 1..Len(recs) |->
        IF \E i \in 1..Len(positions) : positions[i] = p
        THEN LET i == CHOOSE i \in 1..Len(positions) : positions[i] = p
             IN  [recs[p] EXCEPT !.rank = <<i + Get(recs[p].rank, 0)>>,
                                 !.priority_label = <<PriorityName(recs[p].priority)>>]
        ELSE recs[p]]

AssignRanks(recs, positions) ==
    [p \in 1..Len(recs) |->
        IF \E i \in 1..Len(positions) : positions[i] = p
        THEN LET i == CHOOSE i \in 1..Len(positions) : positions[i] = p
             IN  [recs[p] EXCEPT !.rank = <<i>>,
                                 !.priority_label = <<PriorityName(recs[p].priority)>>]
        ELSE recs[p]]

\* ---- get_summary_statistics ----
IncreaseOf(rec) == Get(rec.estimated_monthly_increase, 0)

\* sum(r.get('estimated_monthly_savings', 0) for r in recs)
SumSavings(recs) == SumSeq([k \in 1..Len(recs) |-> SavingsOf(recs[k])])

\* sum(r.get('estimated_monthly_increase', 0) for r in recs)
SumIncreasesAsSavings(recs) == SumSeq([k \in 1..Len(recs) |-> SavingsOf(recs[k])])

SumIncreases(recs) == SumSeq([k \in 1..Len(recs) |-> IncreaseOf(recs[k])])

SummaryStatistics(recs) ==
    LET total_savings == SumSavings(recs)
        total_increases == SumIncreases(recs)
        types == {recs[i].type : i \in 1..Len(recs)}
        OfType(t) == SelectSeq(recs, LAMBDA r : r.type = t)
        CountPri(p) == Cardinality({i \in 1..Len(recs) : recs[i].priority = p})
        automatable == Cardinality({i \in 1..Len(recs) : recs[i].automation_possible})
    IN  [automatable_recommendations |-> automatable,
         automation_percentage |->
             IF recs # <<>> THEN RoundHalfEven(automatable * 1000, Len(recs)) ELSE 0,
         net_annual_impact |-> RoundHalfEven((total_savings - total_increases) * 12, 10),
         net_monthly_impact |-> RoundHalfEven(total_savings - total_increases, 10),
         recommendations_by_priority |->
             [name \in {PriorityName(p) : p \in {q \in 1..4 : CountPri(q) > 0}} |->
                 CountPri(CHOOSE p \in 1..4 : PriorityName(p) = name)],
         recommendations_by_type |->
             [t \in types |->
                 [count |-> Len(OfType(t)),
                  total_increase |-> SumIncreases(OfType(t)),
                  total_savings |-> SumSavings(OfType(t))]],
         total_annual_savings |-> RoundHalfEven(total_savings * 12, 10),
         total_monthly_increases |-> RoundHalfEven(total_increases, 10),
         total_monthly_savings |-> RoundHalfEven(total_savings, 10),
         total_recommendations |-> Len(recs)]

----------------------------------------------------------------------------
(* Simulated metrics and analyze_instance                                  *)
(*                                                                         *)
(* hash() of a str is keyed by a secret that the interpreter draws when    *)
(* the process starts (hash randomization; nothing in the program fixes    *)
(* PYTHONHASHSEED).  The tables hold what the interpreter computes for the *)
(* secrets and names below: hash(name) % 10000, and the metrics that       *)
(* random.seed(seed) followed by the draws of the function produce.        *)

HashSecrets == {1, 2, 5}

InstanceNames == {"vm-1", "vm-2"}

\* hash(instance_name) % 10000 in a process whose secret is secret
SeedOf(secret, instance_name) ==
    CASE secret = 1 /\ instance_name = "vm-1"    -> 7323
      [] secret = 1 /\ instance_name = "vm-2"    -> 4270
      [] secret = 1 /\ instance_name = "unknown" -> 9089
      [] secret = 2 /\ instance_name = "vm-1"    -> 8047
      [] secret = 2 /\ instance_name = "vm-2"    -> 5664
      [] secret = 2 /\ instance_name = "unknown" -> 3523
      [] secret = 5 /\ instance_name = "vm-1"    -> 4798
      [] secret = 5 /\ instance_name = "vm-2"    -> 3811
      [] secret = 5 /\ instance_name = "unknown" -> 284

\* random.seed(seed); pattern = random.choice(...); the four uniform draws;
\* min(peak, 100) and round(x, 1): <<pattern, avg_cpu, avg_memory, peak_cpu,
\* peak_memory>> in tenths of a percent
RandomDraws(seed) ==
    CASE seed = 7323 -> <<"optimal",       558, 544, 740,  662>>
      [] seed = 4270 -> <<"variable",      550, 425, 1000, 597>>
      [] seed = 9089 -> <<"variable",      218, 587, 340,  882>>
      [] seed = 8047 -> <<"variable",      376, 459, 702,  783>>
      [] seed = 5664 -> <<"underutilized", 131, 109, 323,  145>>
      [] seed = 3523 -> <<"optimal",       530, 462, 726,  583>>
      [] seed = 4798 -> <<"constrained",   720, 800, 913,  893>>
      [] seed = 3811 -> <<"variable",      249, 307, 497,  451>>
      [] seed = 284  -> <<"underutilized", 132, 155, 313,  234>>

simulate_utilization_metrics(secret, instance_name) ==
    LET drawn == RandomDraws(SeedOf(secret, instance_name))
    IN  [avg_cpu_utilization |-> <<drawn[2]>>,
         avg_memory_utilization |-> <<drawn[3]>>,
         data_points |-> <<168>>,
         data_quality |-> <<"simulated">>,
         peak_cpu_utilization |-> <<drawn[4]>>,
         peak_memory_utilization |-> <<drawn[5]>>]

\* avg * 1.5, the default of a missing peak
OneAndAHalf(avg) == (avg * 3) \div 2

\* a metric given as a text (<<0, "text">>): multiplying it by 1.5 or
\* comparing it with a number raises TypeError
IsTextMetric(field) == Len(field) = 2

\* the exception leaves analyze_instance
Raised == [recommendation_type |-> "raised"]

ExceptionLeaves(e) == Raised

\* except Exception as e: log and return None
except_Exception(e) == NoRecommendation

\* None is NoRecommendation; utilization_data is <<>> for None.  The
\* analysis_date stamp of the result is left out.
analyze_instance(secret, simulate, instance, utilization_data) ==
    LET current_type == LastSegment(instance.machine_type)
    IN  IF current_type \notin MachineTypeNames THEN NoRecommendation
        ELSE IF utilization_data = <<>> /\ ~simulate THEN NoRecommendation
        ELSE IF /\ utilization_data # <<>>
                /\ IsTextMetric(utilization_data[1].avg_cpu_utilization)
             THEN except_Exception("TypeError")
        ELSE
            LET data == IF utilization_data = <<>>
                        THEN simulate_utilization_metrics(
                                 secret, Get(instance.name, "unknown"))
                        ELSE utilization_data[1]
                avg_cpu_util == Get(data.avg_cpu_utilization, 500)
                avg_memory_util == Get(data.avg_memory_utilization, 500)
                peak_cpu_util ==
                    Get(data.peak_cpu_utilization, OneAndAHalf(avg_cpu_util))
                peak_memory_util ==
                    Get(data.peak_memory_utilization, OneAndAHalf(avg_memory_util))
                rec == _get_rightsizing_recommendation(
                           current_type, avg_cpu_util, avg_memory_util,
                           peak_cpu_util, peak_memory_util)
            IN  IF rec = NoRecommendation THEN NoRecommendation
                ELSE [confidence |-> rec.confidence,
                      current_monthly_cost |-> rec.current_monthly_cost,
                      current_type |-> current_type,
                      data_source |-> Get(data.data_quality, "unknown"),
                      estimated_monthly_increase |-> rec.estimated_monthly_increase,
                      estimated_monthly_savings |-> rec.estimated_monthly_savings,
                      instance_name |-> instance.name,
                      recommendation_type |-> rec.recommendation_type,
                      recommended_monthly_cost |-> rec.recommended_monthly_cost,
                      recommended_type |-> rec.recommended_type,
                      utilization_metrics |-> rec.utilization_metrics]

----------------------------------------------------------------------------
(* Collectors                                                              *)
(*                                                                         *)
(* A config is a dictionary of three optional keys; a required field may   *)
(* name a key no config has.  A client attribute is TRUE once it holds a   *)
(* client object.  Costs of collected records are counted in cents.        *)

\* field in self.config
HasKey(cfg, field) == field \in DOMAIN cfg /\ cfg[field] # <<>>

ValidateConfigFirstFieldOnly(cfg, fields) ==
    IF fields # <<>> /\ ~HasKey(cfg, fields[1])
    THEN [logged |-> <<fields[1]>>, value |-> FALSE]
    ELSE [logged |-> <<>>, value |-> TRUE]

\* the value returned and the fields reported by self.logger.error
validate_config(cfg, fields) ==
    IF \E k \in 1..Len(fields) : ~HasKey(cfg, fields[k])
    THEN LET first == CHOOSE k \in 1..Len(fields) :
                          /\ ~HasKey(cfg, fields[k])
                          /\ \A j \in 1..(k - 1) : HasKey(cfg, fields[j])
         IN  [logged |-> <<fields[first]>>, value |-> FALSE]
    ELSE [logged |-> <<>>, value |-> TRUE]

AccumulateLast(previous, cost) == cost

\* cost_by_service.get(service, 0) + cost
Accumulate(previous, cost) == previous + cost

\* cost_by_service after the first n records, its keys in insertion order
RECURSIVE CostByServiceUpTo(_, _)
CostByServiceUpTo(billing_data, n) ==
    IF n = 0 THEN <<>>
    ELSE LET before == CostByServiceUpTo(billing_data, n - 1)
             service == GroupName(billing_data[n])
             cost == float_cost(billing_data[n])
         IN  IF \E k \in 1..Len(before) : before[k].name = service
             THEN [k \in 1..Len(before) |->
                      IF before[k].name = service
                      THEN [cost |-> Accumulate(before[k].cost, cost), name |-> service]
                      ELSE before[k]]
             ELSE Append(before, [cost |-> Accumulate(0, cost), name |-> service])

\* float() of a text raises ValueError, which nothing catches
get_cost_by_service(billing_data) ==
    IF \E i \in 1..Len(billing_data) : IsText(billing_data[i])
    THEN [kind |-> "raise", value |-> "ValueError"]
    ELSE [kind |-> "dict", value |-> CostByServiceUpTo(billing_data, Len(billing_data))]

\* ---- GCPCollector ----
\* self.service_account_path and self.service_account_path != 'null'
UsesServiceAccount(cfg) ==
    /\ cfg.service_account_path # <<>>
    /\ cfg.service_account_path[1] # ""
    /\ cfg.service_account_path[1] # "null"

\* the steps of authenticate() in the order it takes them; a run fails at one
\* of them or at none
AuthSteps ==
    <<"file", "credentials", "billing_client", "asset_client",
      "compute_client", "test_request", "none">>

StepIndex(step) == CHOOSE k \in 1..Len(AuthSteps) : AuthSteps[k] = step

\* the step was taken and succeeded in a run that fails at fails_at
Passed(step, fails_at) == StepIndex(step) < StepIndex(fails_at)

\* if not self.<client>: raise RuntimeError, else the request is sent; a
\* request that fails is logged and leaves the list empty
Collects(fn, client, records) ==
    IF ~client
    THEN [contacted |-> FALSE, fn |-> fn, kind |-> "raise", value |-> "RuntimeError"]
    ELSE [contacted |-> TRUE, fn |-> fn, kind |-> "list", value |-> records]

----------------------------------------------------------------------------
(* Bounds and inputs                                                       *)

MaxRecs      == 3    \* recommendations an engine holds
MaxBatch     == 2    \* records handed to one add_* call
MaxBilling   == 4    \* billing records handed to analyze_cost_trends / identify_anomalies
MaxPeriod    == 2    \* billing records in one period / history
MaxResources == 10   \* resources handed to calculate_resource_efficiency
MaxServices  == 31   \* services of one bill handed to analyze_cost_trends
MaxProduced  == 1    \* recommendations an engine holds when every kind of item is tried
MaxDated     == 3    \* billing records of mixed date fields handed to identify_anomalies
MaxCollected == 2    \* billing records a collector's collect_billing_data returns

\* every list of at most n elements of S
ListsOf(S, n) == UNION {[1..k -> S] : k \in 0..n}

BillingRecord(name, date, collection_date, cost) ==
    [collection_date |-> collection_date, cost |-> cost,
     date |-> date, service_name |-> name]

Dates == <<"2024-01-01", "2024-01-02", "2024-01-03", "2024-01-04">>
Text  == <<0, "text">>

AnomalyRecord(day, cost) == BillingRecord(<<>>, << <<Dates[day]>> >>, <<>>, cost)

\* billing records in chronological order, as a billing export lists them:
\* days[i] is the day of record i
AnomalyLists(n) ==
    UNION {{[i \in 1..k |-> AnomalyRecord(days[i], costs[i])] :
               days \in {d \in [1..k -> 1..Len(Dates)] :
                            \A i \in 1..k : \A j \in i..k : d[i] <= d[j]},
               costs \in [1..k -> {<<100>>, <<500>>, Text}]} : k \in 0..n}

\* one record a day on the first n days, with costs that put a day exactly
\* on a threshold, credits and missing costs
DailyLists ==
    UNION {{[i \in 1..n |-> AnomalyRecord(i, costs[i])] :
               costs \in [1..n -> {<<>>, <<0>>, <<100>>, <<400>>, <<500>>, <<-300>>}]} :
           n \in 2..Len(Dates)}

\* records dated by 'date' (with or without a time), by 'collection_date', by
\* both, or not at all
DatedRecords ==
    {BillingRecord(<<>>, d[1], d[2], c) :
        d \in {<< << <<Dates[1], "10:00:00">> >>, <<>> >>,
               << << <<Dates[1]>> >>, <<>> >>,
               << <<>>, << <<Dates[2], "08:00:00">> >> >>,
               << << <<Dates[1]>> >>, << <<Dates[2], "08:00:00">> >> >>,
               << <<>>, <<>> >>},
        c \in {<<100>>, <<300>>}}

TrendRecords ==
    {BillingRecord(n, <<>>, <<>>, c) :
        n \in {<<"Compute Engine">>, <<"Cloud Storage">>, <<>>},
        c \in {<<100>>, <<200>>}}
    \cup {BillingRecord(<<"Compute Engine">>, <<>>, <<>>, Text)}

\* a bill of n services that cost one dollar each
ServiceBill(n) == [k \in 1..n |-> BillingRecord(<<ToString(k)>>, <<>>, <<>>, <<1>>)]

PeriodRecords ==
    {BillingRecord(<<>>, <<>>, <<>>, c) :
        c \in {<<>>, <<0>>, <<100>>, <<500>>, <<-100>>, Text}}

HistoryRecords ==
    {BillingRecord(<<>>, d, cd, c) :
        d \in {<<>>, << <<"2024-01-01", "10:00:00">> >>},
        cd \in {<<>>, << <<"2024-01-02">> >>},
        c \in {<<100>>, <<500>>, Text}}

ResourceLists == {<<>>} \cup {<<[k \in 1..n |-> "resource"]>> : n \in 0..MaxResources}

Calls ==
    {[billing_data |-> b, fn |-> "analyze_cost_trends"] :
        b \in ListsOf(TrendRecords, MaxBilling)
                 \cup {ServiceBill(n) : n \in 1..MaxServices}}
    \cup {[current_data |-> c, fn |-> "compare_periods", previous_data |-> p] :
        c \in ListsOf(PeriodRecords, MaxPeriod), p \in ListsOf(PeriodRecords, MaxPeriod)}
    \cup {[billing_data |-> b, fn |-> "identify_anomalies", threshold_percentage |-> 20] :
        b \in AnomalyLists(MaxBilling)}
    \cup {[billing_data |-> b, fn |-> "identify_anomalies", threshold_percentage |-> x] :
        b \in DailyLists \cup ListsOf(DatedRecords, MaxDated), x \in {20, 50}}
    \cup {[fn |-> "generate_budget_forecast", forecast_days |-> 30, historical_data |-> h] :
        h \in ListsOf(HistoryRecords, MaxPeriod)}
    \cup {[fn |-> "calculate_resource_efficiency", idle_resources |-> i, resources |-> r] :
        r \in ResourceLists, i \in ResourceLists}

NoCall   == [fn |-> "none"]
NoResult == [fn |-> "none"]

IdleInstances ==
    {[machine_type |-> <<"zones", "us-central1-a", "machineTypes", "n2-standard-4">>, name |-> "vm-1",
      status |-> "TERMINATED"],
     [machine_type |-> <<"e2-medium">>, name |-> "vm-2", status |-> "STOPPED"]}

\* what analyze_instance adds to the decision's dict
Analyzed(name, type, avg_cpu, avg_memory, peak_cpu, peak_memory) ==
    LET rec == _get_rightsizing_recommendation(type, avg_cpu, avg_memory,
                                               peak_cpu, peak_memory)
    IN  [confidence |-> <<rec.confidence>>,
         estimated_monthly_increase |-> rec.estimated_monthly_increase,
         estimated_monthly_savings |-> rec.estimated_monthly_savings,
         instance_name |-> name,
         recommendation_type |-> rec.recommendation_type]

RightsizingRecs ==
    {Analyzed("vm-3", "n2-standard-8", 50, 150, 250, 300),
     Analyzed("vm-4", "n2-standard-4", 500, 500, 950, 600)}

UnusedResources ==
    {[name |-> "disk-1", size_gb |-> <<2000>>, type |-> <<<<"D", "i", "s", "k">>>>]}

Anomalies ==
    {[date |-> "2024-01-04", severity |-> <<"high">>]}

MaxArgs == {<<>>} \cup {<<n>> : n \in 0..MaxRecs}
MinArgs == {0, 100000}

----------------------------------------------------------------------------
(* Rightsizing analyzer: specification                                     *)

CostIdle == call = NoCall /\ result = NoResult

\* a collector of one required field, built and not used yet
NoOutcome == [fn |-> "none"]

ClientsNone ==
    /\ credentials = FALSE
    /\ billing_client = FALSE
    /\ asset_client = FALSE
    /\ compute_client = FALSE
    /\ authenticated = FALSE

CollectorIdle ==
    /\ config = [billing_account_id |-> <<>>, project_id |-> <<"pid">>,
                 service_account_path |-> <<>>]
    /\ required_fields = <<"project_id">>
    /\ ClientsNone
    /\ outcome = NoOutcome

EngineInit ==
    /\ recommendations = <<>>
    /\ returned = <<>>
    /\ lastOp = "init"
    /\ max_recommendations = <<>>
    /\ min_savings = 0
    /\ summary = <<>>
    /\ added = <<>>

SizingInit ==
    /\ instance_type \in MachineTypeNames
    /\ metrics \in [avg_cpu : AvgCpuValues, avg_memory : AvgMemoryValues,
                    peak_cpu : PeakValues, peak_memory : PeakValues]
    /\ recommendation = NotAnalyzed
    /\ use_simulated_metrics = TRUE
    /\ hash_secret = 1
    /\ simulated = {}
    /\ analysis = NoAnalysis
    /\ CostIdle
    /\ EngineInit
    /\ CollectorIdle

SizingNext == GetRightsizingRecommendation

SpecSizing == SizingInit /\ [][SizingNext]_vars

----------------------------------------------------------------------------
(* Rightsizing analyzer over processes: specification                      *)

\* instances handed to analyze_instance: name and machine_type optional
SimInstances ==
    {[machine_type |-> <<"zones", "us-central1-a", "machineTypes", "n2-standard-4">>,
      name |-> <<"vm-1">>],
     [machine_type |-> <<"n2-standard-4">>, name |-> <<"vm-2">>],
     [machine_type |-> <<"n2-standard-4">>, name |-> <<>>],
     [machine_type |-> <<"custom-8-16384">>, name |-> <<"vm-1">>],
     [machine_type |-> <<>>, name |-> <<"vm-2">>]}

\* utilization_data handed to analyze_instance: None, or measured metrics
\* with any of the keys missing, or with a text for the average CPU
UtilizationData ==
    {<<>>}
    \cup {<<[avg_cpu_utilization |-> a, avg_memory_utilization |-> m,
             data_points |-> <<>>, data_quality |-> <<>>,
             peak_cpu_utilization |-> pc, peak_memory_utilization |-> <<>>]>> :
            a \in {<<>>, <<100>>, <<0, "text">>}, m \in {<<>>, <<150>>},
            pc \in {<<>>, <<250>>, <<950>>}}

\* a process starts: the interpreter draws its hash secret and the program
\* builds its analyzer
StartProcess ==
    /\ hash_secret' \in HashSecrets
    /\ use_simulated_metrics' \in BOOLEAN
    /\ analysis' = NoAnalysis
    /\ UNCHANGED simulated
    /\ UNCHANGED decisionVars
    /\ UNCHANGED costVars
    /\ UNCHANGED collectorVars
    /\ UNCHANGED engineVars

SimulateUtilizationMetrics ==
    \E instance_name \in InstanceNames :
        /\ simulated' = simulated \cup
               {[instance_name |-> instance_name,
                 value |-> simulate_utilization_metrics(hash_secret, instance_name)]}
        /\ UNCHANGED <<use_simulated_metrics, hash_secret, analysis>>
        /\ UNCHANGED decisionVars
        /\ UNCHANGED costVars
        /\ UNCHANGED collectorVars
        /\ UNCHANGED engineVars

AnalyzeInstance ==
    \E instance \in SimInstances, utilization_data \in UtilizationData :
        /\ analysis' =
               [fn |-> "analyze_instance",
                instance |-> instance,
                utilization_data |-> utilization_data,
                value |-> analyze_instance(hash_secret, use_simulated_metrics,
                                           instance, utilization_data)]
        /\ UNCHANGED <<use_simulated_metrics, hash_secret, simulated>>
        /\ UNCHANGED decisionVars
        /\ UNCHANGED costVars
        /\ UNCHANGED collectorVars
        /\ UNCHANGED engineVars

SimInit ==
    /\ AnalyzerIdle
    /\ CostIdle
    /\ EngineInit
    /\ CollectorIdle

SimNext ==
    \/ StartProcess
    \/ SimulateUtilizationMetrics
    \/ AnalyzeInstance

SpecSim == SimInit /\ [][SimNext]_vars

----------------------------------------------------------------------------
(* Cost analyzer: specification                                            *)

Returns(fn, kind, value) ==
    /\ call.fn = fn
    /\ result' = [fn |-> fn, kind |-> kind, value |-> value]
    /\ UNCHANGED call
    /\ UNCHANGED sizingVars
    /\ UNCHANGED engineVars
    /\ UNCHANGED collectorVars

AnalyzeCostTrends ==
    /\ call.fn = "analyze_cost_trends"
    /\ Returns("analyze_cost_trends", "dict", analyze_cost_trends(call.billing_data))

ComparePeriods ==
    /\ call.fn = "compare_periods"
    /\ Returns("compare_periods", "dict",
               compare_periods(call.current_data, call.previous_data))

IdentifyAnomalies ==
    /\ call.fn = "identify_anomalies"
    /\ Returns("identify_anomalies", "list",
               identify_anomalies(call.billing_data, call.threshold_percentage))

GenerateBudgetForecast ==
    /\ call.fn = "generate_budget_forecast"
    /\ Returns("generate_budget_forecast", "dict",
               generate_budget_forecast(call.historical_data, call.forecast_days))

CalculateResourceEfficiency ==
    /\ call.fn = "calculate_resource_efficiency"
    /\ Returns("calculate_resource_efficiency", "dict",
               calculate_resource_efficiency(call.resources, call.idle_resources))

CostInit ==
    /\ call \in Calls
    /\ result = NoResult
    /\ AnalyzerIdle
    /\ EngineInit
    /\ CollectorIdle

CostNext ==
    \/ AnalyzeCostTrends
    \/ ComparePeriods
    \/ IdentifyAnomalies
    \/ GenerateBudgetForecast
    \/ CalculateResourceEfficiency

SpecCost == CostInit /\ [][CostNext]_vars

----------------------------------------------------------------------------
(* Recommendation engine: specification                                    *)

PrependsWithin(bound, op, items, new) ==
    /\ Len(recommendations) + Len(new) <= bound
    /\ recommendations' = new \o recommendations
    /\ added' = added \o items
    /\ returned' = <<>>
    /\ lastOp' = op
    /\ max_recommendations' = <<>>
    /\ min_savings' = 0
    /\ summary' = <<>>
    /\ UNCHANGED sizingVars
    /\ UNCHANGED costVars
    /\ UNCHANGED collectorVars

\* self.recommendations.append(rec) for each input, in order
\* items are the arguments of the call, new the dicts built from them; an
\* engine holds at most bound recommendations
AppendsWithin(bound, op, items, new) ==
    /\ Len(recommendations) + Len(new) <= bound
    /\ recommendations' = recommendations \o new
    /\ added' = added \o items
    /\ returned' = <<>>
    /\ lastOp' = op
    /\ max_recommendations' = <<>>
    /\ min_savings' = 0
    /\ summary' = <<>>
    /\ UNCHANGED sizingVars
    /\ UNCHANGED costVars
    /\ UNCHANGED collectorVars

Appends(op, items, new) == AppendsWithin(MaxRecs, op, items, new)

AddIdleInstanceRecommendations ==
    \E idle_instances \in ListsOf(IdleInstances, MaxBatch) :
        Appends("add_idle_instance_recommendations", idle_instances,
                [i \in 1..Len(idle_instances) |-> IdleRec(idle_instances[i])])

AddRightsizingRecommendations ==
    \E rightsizing_recs \in ListsOf(RightsizingRecs, MaxBatch) :
        Appends("add_rightsizing_recommendations", rightsizing_recs,
                [i \in 1..Len(rightsizing_recs) |-> RightsizingRec(rightsizing_recs[i])])

AddUnusedResourceRecommendations ==
    \E unused_resources \in ListsOf(UnusedResources, MaxBatch) :
        Appends("add_unused_resource_recommendations", unused_resources,
                [i \in 1..Len(unused_resources) |-> UnusedRec(unused_resources[i])])

AddCostAnomalyRecommendations ==
    \E anomalies \in ListsOf(Anomalies, MaxBatch) :
        Appends("add_cost_anomaly_recommendations", anomalies,
                [i \in 1..Len(anomalies) |-> AnomalyRec(anomalies[i])])

\* get_prioritized_recommendations with arguments drawn from the two sets
GetPrioritizedWith(maxArgs, minArgs) ==
    \E maxArg \in maxArgs, minArg \in minArgs :
        LET positions == PrioritizedPositions(recommendations, maxArg, minArg)
        IN  /\ recommendations' = AssignRanks(recommendations, positions)
            /\ returned' = positions
            /\ lastOp' = "get_prioritized_recommendations"
            /\ max_recommendations' = maxArg
            /\ min_savings' = minArg
            /\ summary' = <<>>
            /\ UNCHANGED added
            /\ UNCHANGED sizingVars
            /\ UNCHANGED costVars
            /\ UNCHANGED collectorVars

GetPrioritizedRecommendations == GetPrioritizedWith(MaxArgs, MinArgs)

GetSummaryStatistics ==
    /\ summary' = <<SummaryStatistics(recommendations)>>
    /\ lastOp' = "get_summary_statistics"
    /\ returned' = <<>>
    /\ max_recommendations' = <<>>
    /\ min_savings' = 0
    /\ UNCHANGED <<recommendations, added>>
    /\ UNCHANGED sizingVars
    /\ UNCHANGED costVars
    /\ UNCHANGED collectorVars

ClearReturnedOnly ==
    /\ recommendations' = recommendations
    /\ added' = added
    /\ returned' = <<>>
    /\ lastOp' = "clear_recommendations"
    /\ max_recommendations' = <<>>
    /\ min_savings' = 0
    /\ summary' = <<>>
    /\ UNCHANGED sizingVars
    /\ UNCHANGED costVars
    /\ UNCHANGED collectorVars

ClearRecommendations ==
    /\ recommendations' = <<>>
    /\ added' = <<>>
    /\ returned' = <<>>
    /\ lastOp' = "clear_recommendations"
    /\ max_recommendations' = <<>>
    /\ min_savings' = 0
    /\ summary' = <<>>
    /\ UNCHANGED sizingVars
    /\ UNCHANGED costVars
    /\ UNCHANGED collectorVars

Init ==
    /\ EngineInit
    /\ AnalyzerIdle
    /\ CostIdle
    /\ CollectorIdle

Next ==
    \/ AddIdleInstanceRecommendations
    \/ AddRightsizingRecommendations
    \/ AddUnusedResourceRecommendations
    \/ AddCostAnomalyRecommendations
    \/ GetPrioritizedRecommendations
    \/ GetSummaryStatistics
    \/ ClearRecommendations

Spec == Init /\ [][Next]_vars

----------------------------------------------------------------------------
(* Recommendation engine, every kind of item: specification                *)
(*                                                                         *)
(* The producers are tried on items that cover every branch of the cost    *)
(* estimates and of the priority rules, one item per call.                 *)

\* every machine type of the catalog, bare or behind a path, and none
AnyIdleInstances ==
    {[machine_type |-> t, name |-> "vm-1", status |-> "TERMINATED"] :
        t \in {<<n>> : n \in MachineTypeNames}
              \cup {<<>>,
                    <<"zones", "us-central1-a", "machineTypes", "n2-standard-4">>,
                    <<"zones", "us-central1-a", "machineTypes", "e2-small">>}}

\* savings on both sides of 20, 100 and 500 dollars, with every confidence,
\* and what the analyzer itself recommends
AnyRightsizingRecs ==
    {[confidence |-> c,
      estimated_monthly_increase |-> <<>>,
      estimated_monthly_savings |-> sv,
      instance_name |-> "vm-3",
      recommendation_type |-> "downsize"] :
        c \in {<<>>, <<"low">>, <<"medium">>, <<"high">>},
        sv \in {<<>>} \cup {<<v>> : v \in {0, 20000, 20010, 100000, 100010,
                                            500000, 500010}}}
    \cup RightsizingRecs

ResourceTypes ==
    {<<"D", "i", "s", "k">>,
     <<"d", "i", "s", "k">>,
     <<"s", "n", "a", "p", "s", "h", "o", "t">>,
     <<"S", "n", "a", "p", "s", "h", "o", "t">>,
     <<"s", "t", "a", "t", "i", "c", "_", "i", "p">>,
     <<"I", "P">>,
     <<"d", "i", "s", "k", "_", "s", "n", "a", "p", "s", "h", "o", "t">>,
     <<"s", "u", "b", "s", "c", "r", "i", "p", "t", "i", "o", "n">>,
     <<"b", "u", "c", "k", "e", "t">>}

AnyUnusedResources ==
    {[name |-> "res-1", size_gb |-> sz, type |-> t] :
        sz \in {<<>>, <<1000>>, <<2000>>},
        t \in {<<>>} \cup {<<x>> : x \in ResourceTypes}}

AnyAnomalies ==
    {[date |-> "2024-01-04", severity |-> sev] :
        sev \in {<<>>, <<"high">>, <<"medium">>, <<"low">>, <<"HIGH">>}}

\* min_savings of nothing, of one cent and on the priority thresholds
AnyMinArgs == {0, 10, 20000, 100000}

AddOneIdleInstance ==
    \E instance \in AnyIdleInstances :
        AppendsWithin(MaxProduced, "add_idle_instance_recommendations",
                      <<instance>>, <<IdleRec(instance)>>)

AddOneRightsizing ==
    \E rec \in AnyRightsizingRecs :
        AppendsWithin(MaxProduced, "add_rightsizing_recommendations",
                      <<rec>>, <<RightsizingRec(rec)>>)

AddOneUnusedResource ==
    \E resource \in AnyUnusedResources :
        AppendsWithin(MaxProduced, "add_unused_resource_recommendations",
                      <<resource>>, <<UnusedRec(resource)>>)

AddOneCostAnomaly ==
    \E anomaly \in AnyAnomalies :
        AppendsWithin(MaxProduced, "add_cost_anomaly_recommendations",
                      <<anomaly>>, <<AnomalyRec(anomaly)>>)

GetPrioritizedAny == GetPrioritizedWith(MaxArgs, AnyMinArgs)

ProducersNext ==
    \/ AddOneIdleInstance
    \/ AddOneRightsizing
    \/ AddOneUnusedResource
    \/ AddOneCostAnomaly
    \/ GetPrioritizedAny
    \/ ClearRecommendations

SpecProducers == Init /\ [][ProducersNext]_vars

----------------------------------------------------------------------------
(* Base collector: specification                                           *)
(*                                                                         *)
(* A concrete collector supplies get_required_config_fields and            *)
(* collect_billing_data; the latter may return any list of records.        *)

Configs ==
    {[billing_account_id |-> <<>>, project_id |-> <<"pid">>,
      service_account_path |-> <<>>],
     [billing_account_id |-> <<>>, project_id |-> <<>>,
      service_account_path |-> <<>>],
     [billing_account_id |-> <<"">>, project_id |-> <<>>,
      service_account_path |-> <<>>],
     [billing_account_id |-> <<"acct">>, project_id |-> <<"pid">>,
      service_account_path |-> <<"/keys/sa.json">>]}

RequiredFieldLists ==
    {<<>>,
     <<"project_id">>,
     <<"project_id", "billing_account_id">>,
     <<"billing_account_id", "project_id">>,
     <<"region", "project_id">>}

\* records of two services, one without a service name and without a cost,
\* and one whose cost is a text
CollectedRecords ==
    {BillingRecord(<<"A">>, <<>>, <<>>, <<150>>),
     BillingRecord(<<"A">>, <<>>, <<>>, <<250>>),
     BillingRecord(<<"B">>, <<>>, <<>>, <<100>>),
     BillingRecord(<<>>, <<>>, <<>>, <<>>),
     BillingRecord(<<"A">>, <<>>, <<>>, Text)}

ValidateConfig ==
    LET r == validate_config(config, required_fields)
    IN  /\ outcome' = [fn |-> "validate_config", logged |-> r.logged, value |-> r.value]
        /\ UNCHANGED <<config, required_fields, clientVars, authenticated>>
        /\ UNCHANGED sizingVars
        /\ UNCHANGED costVars
        /\ UNCHANGED engineVars

GetCostByService ==
    \E billing_data \in ListsOf(CollectedRecords, MaxCollected) :
        LET r == get_cost_by_service(billing_data)
        IN  /\ outcome' = [billing_data |-> billing_data, fn |-> "get_cost_by_service",
                           kind |-> r.kind, value |-> r.value]
            /\ UNCHANGED <<config, required_fields, clientVars, authenticated>>
            /\ UNCHANGED sizingVars
            /\ UNCHANGED costVars
            /\ UNCHANGED engineVars

CollectorInit ==
    /\ config \in Configs
    /\ required_fields \in RequiredFieldLists
    /\ ClientsNone
    /\ outcome = NoOutcome
    /\ AnalyzerIdle
    /\ CostIdle
    /\ EngineInit

CollectorNext ==
    \/ ValidateConfig
    \/ GetCostByService

SpecCollector == CollectorInit /\ [][CollectorNext]_vars

----------------------------------------------------------------------------
(* GCP collector: specification                                            *)
(*                                                                         *)
(* The cloud is the environment: whether the key file exists, whether the  *)
(* credentials load, whether each client can be built and whether each     *)
(* request succeeds is its choice.                                         *)

\* configs a GCPCollector can be built with: project_id is required
GcpConfigs ==
    {[billing_account_id |-> <<>>, project_id |-> <<"pid">>,
      service_account_path |-> p] :
        p \in {<<>>, <<"null">>, <<"/keys/sa.json">>}}

Authenticate ==
    \E fails_at \in {AuthSteps[k] : k \in 1..Len(AuthSteps)} :
        /\ fails_at = "file" => UsesServiceAccount(config)
        /\ credentials' = (credentials \/ Passed("credentials", fails_at))
        /\ billing_client' = (billing_client \/ Passed("billing_client", fails_at))
        /\ asset_client' = (asset_client \/ Passed("asset_client", fails_at))
        /\ compute_client' = (compute_client \/ Passed("compute_client", fails_at))
        /\ authenticated' = (authenticated \/ fails_at = "none")
        /\ outcome' = [contacted |-> Passed("compute_client", fails_at),
                       fn |-> "authenticate",
                       stage |-> fails_at,
                       value |-> (fails_at = "none")]
        /\ UNCHANGED <<config, required_fields>>
        /\ UNCHANGED sizingVars
        /\ UNCHANGED costVars
        /\ UNCHANGED engineVars

CollectBillingData ==
    \E records \in {<<>>, <<"billing_record">>} :
        /\ outcome' = Collects("collect_billing_data", billing_client, records)
        /\ UNCHANGED <<config, required_fields, clientVars, authenticated>>
        /\ UNCHANGED sizingVars
        /\ UNCHANGED costVars
        /\ UNCHANGED engineVars

CollectResourceData ==
    \E records \in {<<>>, <<"resource">>, <<"resource", "resource">>} :
        /\ outcome' = Collects("collect_resource_data", asset_client, records)
        /\ UNCHANGED <<config, required_fields, clientVars, authenticated>>
        /\ UNCHANGED sizingVars
        /\ UNCHANGED costVars
        /\ UNCHANGED engineVars

GetIdleComputeInstances ==
    \E records \in {<<>>, <<"instance">>, <<"instance", "instance">>} :
        /\ outcome' = Collects("get_idle_compute_instances", compute_client, records)
        /\ UNCHANGED <<config, required_fields, clientVars, authenticated>>
        /\ UNCHANGED sizingVars
        /\ UNCHANGED costVars
        /\ UNCHANGED engineVars

GcpInit ==
    /\ config \in GcpConfigs
    /\ required_fields = <<"project_id">>
    /\ ClientsNone
    /\ outcome = NoOutcome
    /\ AnalyzerIdle
    /\ CostIdle
    /\ EngineInit

GcpNext ==
    \/ Authenticate
    \/ CollectBillingData
    \/ CollectResourceData
    \/ GetIdleComputeInstances

SpecGcp == GcpInit /\ [][GcpNext]_vars

----------------------------------------------------------------------------
(* Properties of the recommendation engine (specification Spec)            *)

Ranked == lastOp = "get_prioritized_recommendations"

\* the dict at place i of the returned list
Item(i) == recommendations[returned[i]]

\* C1: the list returned by get_prioritized_recommendations is ordered by
\* priority value ascending, then by savings descending (absent savings count
\* as 0); items equal on both keep their insertion order; the i-th item has
\* rank i and the name of its priority as priority_label.
C1_RankedOrder ==
    Ranked =>
        /\ \A i \in 1..Len(returned) : \A j \in 1..Len(returned) :
              i < j =>
                 \/ Item(i).priority < Item(j).priority
                 \/ /\ Item(i).priority = Item(j).priority
                    /\ Get(Item(i).estimated_monthly_savings, 0)
                          > Get(Item(j).estimated_monthly_savings, 0)
                 \/ /\ Item(i).priority = Item(j).priority
                    /\ Get(Item(i).estimated_monthly_savings, 0)
                          = Get(Item(j).estimated_monthly_savings, 0)
                    /\ returned[i] < returned[j]
        /\ \A i \in 1..Len(returned) :
              /\ Item(i).rank = <<i>>
              /\ Item(i).priority = 1 => Item(i).priority_label = <<"CRITICAL">>
              /\ Item(i).priority = 2 => Item(i).priority_label = <<"HIGH">>
              /\ Item(i).priority = 3 => Item(i).priority_label = <<"MEDIUM">>
              /\ Item(i).priority = 4 => Item(i).priority_label = <<"LOW">>

\* a ranked list of three in which the sort moved an item forward, two items
\* differ only in savings and two are equal on both keys
C1_Witness ==
    /\ Ranked
    /\ Len(returned) = 3
    /\ \E i \in 1..2 : returned[i] > returned[i + 1]
    /\ \E i \in 1..2 :
          /\ Item(i).priority = Item(i + 1).priority
          /\ SavingsOf(Item(i)) > SavingsOf(Item(i + 1))
    /\ \E i \in 1..2 :
          /\ Item(i).priority = Item(i + 1).priority
          /\ SavingsOf(Item(i)) = SavingsOf(Item(i + 1))

\* C2: once a recommendation has a rank, no later add_*,
\* get_prioritized_recommendations or get_summary_statistics changes its rank
\* or any other field.
C2_NeverMutatedAfterRanking ==
    [][\A p \in 1..Len(recommendations) :
          (recommendations[p].rank # <<>> /\ lastOp' # "clear_recommendations")
             => (p <= Len(recommendations') /\ recommendations'[p] = recommendations[p])]_vars

\* C3: whenever max_recommendations is given (any integer >= 0, 0 included),
\* the returned list is the first max_recommendations items of the filtered,
\* sorted list, so it is no longer than max_recommendations.
C3_TruncatedToMax ==
    (Ranked /\ max_recommendations # <<>> /\ max_recommendations[1] >= 0) =>
        /\ Len(returned) <= max_recommendations[1]
        /\ LET all == PrioritizedPositions(recommendations, <<>>, min_savings)
           IN  \A i \in 1..Len(all) :
                  i <= max_recommendations[1] => (i <= Len(returned) /\ returned[i] = all[i])

\* the positions of the recommendations whose savings reach min_savings
Kept ==
    {p \in 1..Len(recommendations) :
        Get(recommendations[p].estimated_monthly_savings, 0) >= min_savings}

\* C14: get_prioritized_recommendations returns, each once, recommendations
\* whose savings (0 when absent) are >= min_savings, and leaves out one whose
\* savings are >= min_savings only when max_recommendations cut the list.
C14_FilteredByMinSavings ==
    Ranked =>
        /\ \A i \in 1..Len(returned) : returned[i] \in Kept
        /\ \A i \in 1..Len(returned) : \A j \in 1..Len(returned) :
              returned[i] = returned[j] => i = j
        /\ (\E p \in Kept : \A i \in 1..Len(returned) : returned[i] # p) =>
              /\ max_recommendations # <<>>
              /\ Len(returned) = max_recommendations[1]

\* with min_savings = 100 and no limit, one recommendation is returned and
\* another, whose savings are lower, is not
C14_Witness ==
    /\ Ranked
    /\ min_savings = 100000
    /\ max_recommendations = <<>>
    /\ Len(returned) >= 1
    /\ Len(returned) < Len(recommendations)

AddOps ==
    {"add_idle_instance_recommendations", "add_rightsizing_recommendations",
     "add_unused_resource_recommendations", "add_cost_anomaly_recommendations"}

\* C15: clear_recommendations leaves the engine without recommendations, and
\* an engine without recommendations stays so until the next add_*: a
\* get_prioritized_recommendations returns the empty list and a
\* get_summary_statistics reports total_recommendations = 0.
C15_EmptyAfterClear ==
    /\ [](lastOp = "clear_recommendations" => recommendations = <<>>)
    /\ [][(recommendations = <<>> /\ lastOp' \notin AddOps) =>
            /\ recommendations' = <<>>
            /\ lastOp' = "get_prioritized_recommendations" => returned' = <<>>
            /\ lastOp' = "get_summary_statistics" =>
                   summary'[1].total_recommendations = 0]_vars

\* an engine just cleared
C15_Witness ==
    /\ lastOp = "clear_recommendations"
    /\ recommendations = <<>>
    /\ returned = <<>>

Summarised == lastOp = "get_summary_statistics"

\* the positions of the held recommendations with priority value p
WithPriority(p) == {i \in 1..Len(recommendations) : recommendations[i].priority = p}

\* the sum of f over the set S
RECURSIVE SumOfCounts(_, _)
SumOfCounts(f, S) ==
    IF S = {} THEN 0
    ELSE LET x == CHOOSE y \in S : TRUE IN f[x] + SumOfCounts(f, S \ {x})

\* C16: get_summary_statistics always returns a summary.  On an empty engine
\* total_recommendations and automation_percentage are 0.  Otherwise
\* total_recommendations is the number of held recommendations,
\* automation_percentage is automatable / total * 100 (to 1 decimal),
\* net_monthly_impact is total savings - total increases (to the cent), and
\* recommendations_by_priority names exactly the priorities that have a
\* member, with counts that sum to total_recommendations.
C16_SummaryStatistics ==
    Summarised =>
        /\ summary # <<>>
        /\ LET stats == summary[1]
               total == Len(recommendations)
               automatable ==
                   Cardinality({i \in 1..total : recommendations[i].automation_possible})
               savings == SumSeq([i \in 1..total |->
                              Get(recommendations[i].estimated_monthly_savings, 0)])
               increases == SumSeq([i \in 1..total |->
                                Get(recommendations[i].estimated_monthly_increase, 0)])
               by_priority == stats.recommendations_by_priority
           IN  /\ stats.total_recommendations = total
               /\ total = 0 => stats.automation_percentage = 0
               /\ total > 0 =>
                      2 * Abs(stats.automation_percentage * total - automatable * 1000)
                          <= total
               /\ 2 * Abs(stats.net_monthly_impact * 10 - (savings - increases)) <= 10
               /\ DOMAIN by_priority =
                      {PriorityName(q) : q \in {r \in 1..4 : WithPriority(r) # {}}}
               /\ \A q \in 1..4 :
                      WithPriority(q) # {} =>
                          by_priority[PriorityName(q)] = Cardinality(WithPriority(q))
               /\ SumOfCounts(by_priority, DOMAIN by_priority) = total

\* a summary of three recommendations of two priorities, one of them not
\* automatable and one with a cost increase
C16_Witness ==
    /\ Summarised
    /\ Len(recommendations) = 3
    /\ Cardinality(DOMAIN summary[1].recommendations_by_priority) = 2
    /\ \E i \in 1..3 : ~recommendations[i].automation_possible
    /\ \E i \in 1..3 : Get(recommendations[i].estimated_monthly_increase, 0) > 0

----------------------------------------------------------------------------
(* Properties of the cost analyzer (specification SpecCost)                *)

Returned(fn) == result.fn = fn

\* the days of a billing list and the total of each
DaysOf(data) == {DateOf(data[i]) : i \in 1..Len(data)}
DayTotal(data, day) ==
    SumWhere(data, [k \in 1..Len(data) |-> DateOf(data[k])], day, Len(data))

\* daily totals 100, 100, 100 and 500 on four distinct dates, threshold 20
SpikeCase ==
    /\ call.fn = "identify_anomalies"
    /\ call.threshold_percentage = 20
    /\ \A i \in 1..Len(call.billing_data) : ~IsText(call.billing_data[i])
    /\ Cardinality(DaysOf(call.billing_data)) = 4
    /\ \E spike \in DaysOf(call.billing_data) :
          /\ DayTotal(call.billing_data, spike) = 500
          /\ \A d \in DaysOf(call.billing_data) \ {spike} :
                DayTotal(call.billing_data, d) = 100

SpikeDay ==
    CHOOSE d \in DaysOf(call.billing_data) : DayTotal(call.billing_data, d) = 500

\* C5 (as claimed): in that case identify_anomalies returns exactly one anomaly,
\* the date whose cost is 500, with severity 'high'.
C5_ExactlyOneAnomaly ==
    (Returned("identify_anomalies") /\ SpikeCase) =>
        /\ Len(result.value) = 1
        /\ result.value[1].date = SpikeDay
        /\ result.value[1].severity = "high"

\* C5 (amended): in that case identify_anomalies returns four anomalies, one
\* per date: the date whose cost is 500 with severity 'high' (deviation +150%)
\* and each date whose cost is 100 with severity 'medium' (deviation -50%).
C5_FourAnomalies ==
    (Returned("identify_anomalies") /\ SpikeCase) =>
        /\ Len(result.value) = 4
        /\ {result.value[i].date : i \in 1..4} = DaysOf(call.billing_data)
        /\ \A i \in 1..4 :
              IF result.value[i].date = SpikeDay
              THEN /\ result.value[i].severity = "high"
                   /\ result.value[i].cost = 50000
                   /\ result.value[i].deviation_percentage = 15000
              ELSE /\ result.value[i].severity = "medium"
                   /\ result.value[i].cost = 10000
                   /\ result.value[i].deviation_percentage = -5000

C5_Witness ==
    /\ Returned("identify_anomalies")
    /\ SpikeCase
    /\ Len(result.value) = 4

\* C6: for lists of any lengths, the utilization_rate returned by
\* calculate_resource_efficiency lies in [0, 100] and active_resources is not
\* negative.
C6_RateInRange ==
    (Returned("calculate_resource_efficiency") /\ result.value.status = <<>>) =>
        /\ result.value.utilization_rate >= 0
        /\ result.value.utilization_rate <= 10000
        /\ result.value.active_resources >= 0

\* the call meets an internal fault: a cost that float() rejects, or a list
\* that is None
Faulty ==
    \/ /\ call.fn = "analyze_cost_trends"
       /\ \E i \in 1..Len(call.billing_data) : IsText(call.billing_data[i])
    \/ /\ call.fn = "compare_periods"
       /\ \/ \E i \in 1..Len(call.current_data) : IsText(call.current_data[i])
          \/ \E i \in 1..Len(call.previous_data) : IsText(call.previous_data[i])
    \/ /\ call.fn = "identify_anomalies"
       /\ \E i \in 1..Len(call.billing_data) :
             HasDate(call.billing_data[i]) /\ IsText(call.billing_data[i])
    \/ /\ call.fn = "generate_budget_forecast"
       /\ \E i \in 1..Len(call.historical_data) : IsText(call.historical_data[i])
    \/ /\ call.fn = "calculate_resource_efficiency"
       /\ (call.resources = <<>> \/ call.idle_resources = <<>>)

\* C10: every cost analyzer function that meets an internal fault returns a
\* dictionary with status 'error' and a message.
C10_FaultGivesErrorResult ==
    (result.fn # "none" /\ Faulty) =>
        /\ result.kind = "dict"
        /\ result.value.status = <<"error">>

\* the total of a record set, a missing cost counting 0
TotalOf(data) == SumSeq([k \in 1..Len(data) |-> Get(data[k].cost, 0)])

Compared == Returned("compare_periods") /\ result.value.status = <<>>

\* C13: compare_periods reports the two totals; percentage_change is
\* (current - previous) / previous * 100 rounded to 2 decimals when the
\* previous total is not 0, and otherwise 100 if current > 0 else 0; trend is
\* 'increasing' iff current > previous, 'decreasing' otherwise (equal totals
\* and two empty sets included).
C13_ComparePeriods ==
    Compared =>
        LET current == TotalOf(call.current_data)
            previous == TotalOf(call.previous_data)
            change == result.value.percentage_change
        IN  /\ result.value.current_period_cost = current * 100
            /\ result.value.previous_period_cost = previous * 100
            /\ previous # 0 =>
                   \* change is a nearest hundredth of the quotient
                   2 * Abs(change * previous - (current - previous) * 10000)
                       <= Abs(previous)
            /\ previous = 0 => change = (IF current > 0 THEN 10000 ELSE 0)
            /\ result.value.trend =
                   (IF current > previous THEN "increasing" ELSE "decreasing")

\* two empty record sets compare as 'decreasing' with a change of 0
C13_Witness ==
    /\ Compared
    /\ call.current_data = <<>>
    /\ call.previous_data = <<>>
    /\ result.value.trend = "decreasing"
    /\ result.value.percentage_change = 0

\* the percentages of a breakdown, in hundredths of a percent
Percentages(breakdown) == [k \in 1..Len(breakdown) |-> breakdown[k].percentage]

\* C12: whenever analyze_cost_trends succeeds with total_cost > 0, the
\* percentages of its breakdown (each rounded to 2 decimals) sum to 100
\* within 0.1, for any number of groups.
C12_PercentagesSumTo100 ==
    (/\ Returned("analyze_cost_trends")
     /\ result.value.status = <<"success">>
     /\ result.value.total_cost > 0) =>
        Abs(SumSeq(Percentages(result.value.breakdown)) - 10000) <= 10

----------------------------------------------------------------------------
(* Properties of the sizing decision (specification SpecSizing)            *)

Decided == recommendation # NotAnalyzed

Current == SpecOf(instance_type)

TypeAt(i) == MACHINE_TYPES[i]

\* C7: the downsize trigger and the upsize trigger never hold together, so an
\* instance that satisfies the upsize trigger is never handled by the downsize
\* branch.
C7_TriggersExclusive ==
    Decided =>
        /\ ~(/\ metrics.avg_cpu < 200 /\ metrics.avg_memory < 300 /\ metrics.peak_cpu < 400
             /\ (metrics.peak_cpu > 900 \/ metrics.peak_memory > 900))
        /\ recommendation.recommendation_type = "downsize"
              => ~(metrics.peak_cpu > 900 \/ metrics.peak_memory > 900)

\* catalog types that carry the peak load with a 20% buffer and cost less
SmallerFits ==
    {i \in 1..Len(MACHINE_TYPES) :
        /\ TypeAt(i).vcpus * 1000 * 10 >= Current.vcpus * metrics.peak_cpu * 12
        /\ TypeAt(i).memory_gb * 1000 * 10 >= Current.memory_gb * metrics.peak_memory * 12
        /\ TypeAt(i).cost_per_hour < Current.cost_per_hour}

\* C8: under the downsize trigger the decision recommends the cheapest catalog
\* type with vCPUs >= current * peak_cpu/100 * 1.2, memory >= current *
\* peak_memory/100 * 1.2 and a strictly lower hourly cost, with savings
\* (current - candidate) * 24 * 30 > 0 and confidence 'medium' if avg_cpu < 10
\* else 'low'; with no such type it recommends nothing.
C8_DownsizeToCheapestFit ==
    (/\ Decided
     /\ metrics.avg_cpu < 200 /\ metrics.avg_memory < 300 /\ metrics.peak_cpu < 400) =>
        IF SmallerFits = {} THEN recommendation = NoRecommendation
        ELSE \E i \in SmallerFits :
                /\ \A j \in SmallerFits : TypeAt(i).cost_per_hour <= TypeAt(j).cost_per_hour
                /\ recommendation.recommendation_type = "downsize"
                /\ recommendation.recommended_type = TypeAt(i).name
                /\ recommendation.estimated_monthly_savings =
                      <<(Current.cost_per_hour - TypeAt(i).cost_per_hour) * 24 * 30>>
                /\ recommendation.estimated_monthly_savings[1] > 0
                /\ recommendation.confidence =
                      (IF metrics.avg_cpu < 100 THEN "medium" ELSE "low")

\* n2-standard-4 at avg 10 / 15 and peak 25 / 30 is downsized
C8_Witness ==
    /\ instance_type = "n2-standard-4"
    /\ metrics = [avg_cpu |-> 100, avg_memory |-> 150, peak_cpu |-> 250, peak_memory |-> 300]
    /\ recommendation.recommendation_type = "downsize"

\* catalog types with 1.5 times the current capacity on each dimension whose
\* peak is above 90 (the current capacity on the other) that cost more
LargerFits ==
    {i \in 1..Len(MACHINE_TYPES) :
        /\ TypeAt(i).vcpus * 2
              >= Current.vcpus * (IF metrics.peak_cpu > 900 THEN 3 ELSE 2)
        /\ TypeAt(i).memory_gb * 2
              >= Current.memory_gb * (IF metrics.peak_memory > 900 THEN 3 ELSE 2)
        /\ TypeAt(i).cost_per_hour > Current.cost_per_hour}

\* C9: when the downsize trigger does not hold and a peak is above 90, the
\* decision recommends the cheapest such type as an upsize, with a positive
\* estimated_monthly_increase, no savings figure and confidence 'medium'; with
\* no such type, and when neither trigger holds, it recommends nothing.
C9_UpsizeToCheapestFit ==
    (/\ Decided
     /\ ~(metrics.avg_cpu < 200 /\ metrics.avg_memory < 300 /\ metrics.peak_cpu < 400)) =>
        IF (metrics.peak_cpu > 900 \/ metrics.peak_memory > 900) /\ LargerFits # {}
        THEN \E i \in LargerFits :
                /\ \A j \in LargerFits : TypeAt(i).cost_per_hour <= TypeAt(j).cost_per_hour
                /\ recommendation.recommendation_type = "upsize"
                /\ recommendation.recommended_type = TypeAt(i).name
                /\ recommendation.estimated_monthly_increase =
                      <<(TypeAt(i).cost_per_hour - Current.cost_per_hour) * 24 * 30>>
                /\ recommendation.estimated_monthly_increase[1] > 0
                /\ recommendation.estimated_monthly_savings = <<>>
                /\ recommendation.confidence = "medium"
        ELSE recommendation = NoRecommendation

\* n2-standard-4 with peak_cpu 95 is upsized
C9_Witness ==
    /\ instance_type = "n2-standard-4"
    /\ metrics = [avg_cpu |-> 500, avg_memory |-> 600, peak_cpu |-> 950, peak_memory |-> 600]
    /\ recommendation.recommendation_type = "upsize"

----------------------------------------------------------------------------
(* Properties of the simulated metrics (specification SpecSim)             *)

\* C11: simulate_utilization_metrics returns the same metrics for the same
\* instance name in every call and in every process of the program.
C11_SameMetricsEveryRun ==
    \A p \in simulated, q \in simulated :
        p.instance_name = q.instance_name => p.value = q.value

\* C24: analyze_instance never raises; it returns no recommendation when the
\* machine type (path prefix stripped) is not in the catalog, when no
\* utilization data is supplied and simulation is disabled, and when an
\* internal fault occurs, so the analysis of further instances goes on.
C24_NoRecommendationOnFault ==
    analysis.fn = "analyze_instance" =>
        LET path == analysis.instance.machine_type
            type == IF path = <<>> THEN "" ELSE path[Len(path)]
            data == analysis.utilization_data
        IN  /\ analysis.value.recommendation_type \in {"none", "downsize", "upsize"}
            /\ (\A i \in 1..Len(MACHINE_TYPES) : MACHINE_TYPES[i].name # type)
                   => analysis.value = NoRecommendation
            /\ (data = <<>> /\ ~use_simulated_metrics)
                   => analysis.value = NoRecommendation
            /\ (data # <<>> /\ Len(data[1].avg_cpu_utilization) = 2)
                   => analysis.value = NoRecommendation

\* an instance of a known type analysed with a text for a metric
C24_Witness ==
    /\ analysis.fn = "analyze_instance"
    /\ Len(analysis.instance.machine_type) = 4
    /\ analysis.utilization_data # <<>>
    /\ Len(analysis.utilization_data[1].avg_cpu_utilization) = 2
    /\ analysis.value = NoRecommendation

----------------------------------------------------------------------------
(* Priorities and estimates of each producer                               *)

\* the positions of the held recommendations of one type
Held(type) == {p \in 1..Len(recommendations) : recommendations[p].type = type}

\* C17: a recommendation added by add_rightsizing_recommendations, with
\* savings s (0 when absent) and confidence c ('low' when absent), is CRITICAL
\* iff s > 500 and c is high or medium, otherwise HIGH iff s > 100, otherwise
\* MEDIUM iff s > 20, otherwise LOW.
C17_RightsizingPriority ==
    \A p \in Held("rightsizing") :
        LET sv == Get(added[p].estimated_monthly_savings, 0)
            c == Get(added[p].confidence, "low")
            critical == sv > 500000 /\ (c = "high" \/ c = "medium")
            priority == recommendations[p].priority
        IN  /\ priority \in {CRITICAL, HIGH, MEDIUM, LOW}
            /\ (priority = CRITICAL) <=> critical
            /\ ~critical => ((priority = HIGH) <=> sv > 100000)
            /\ (~critical /\ sv <= 100000) => ((priority = MEDIUM) <=> sv > 20000)

\* savings above 500 with no confidence given: HIGH
C17_Witness ==
    \E p \in Held("rightsizing") :
        /\ added[p].estimated_monthly_savings = <<500010>>
        /\ added[p].confidence = <<>>
        /\ recommendations[p].priority = HIGH

\* the static monthly price of each machine type the engine knows
CostTable ==
    {<<"e2-micro", 5760>>, <<"e2-small", 11520>>, <<"e2-medium", 23760>>,
     <<"e2-standard-2", 48240>>, <<"e2-standard-4", 96480>>,
     <<"n2-standard-2", 69840>>, <<"n2-standard-4", 139680>>}

\* the table entry of the machine type a path ends with, 50 for an unknown one
TableEntry(path) ==
    LET name == IF path = <<>> THEN "" ELSE path[Len(path)]
    IN  IF \E e \in CostTable : e[1] = name
        THEN (CHOOSE e \in CostTable : e[1] = name)[2]
        ELSE 50000

\* C18: an idle-instance recommendation saves the static table entry of its
\* machine type (path prefix stripped, 50 for an unknown type) and is HIGH iff
\* that is above 100, else MEDIUM; an engine holding a single one with savings
\* above 100 returns it from get_prioritized_recommendations() with rank 1
\* and priority_label 'HIGH'.
C18_IdleInstanceEstimate ==
    /\ \A p \in Held("idle_instance") :
           LET entry == TableEntry(added[p].machine_type)
           IN  /\ recommendations[p].estimated_monthly_savings = <<entry>>
               /\ recommendations[p].priority =
                      IF entry > 100000 THEN HIGH ELSE MEDIUM
    /\ ( /\ Ranked
         /\ max_recommendations = <<>>
         /\ min_savings = 0
         /\ Len(recommendations) = 1
         /\ Held("idle_instance") = {1}
         /\ SavingsOf(recommendations[1]) > 100000 )
       => /\ returned = <<1>>
          /\ recommendations[1].rank = <<1>>
          /\ recommendations[1].priority_label = <<"HIGH">>

\* an idle n2-standard-4 given by its path, returned first
C18_Witness ==
    /\ Ranked
    /\ max_recommendations = <<>>
    /\ min_savings = 0
    /\ Len(recommendations) = 1
    /\ Held("idle_instance") = {1}
    /\ Len(added[1].machine_type) = 4
    /\ recommendations[1].estimated_monthly_savings = <<139680>>
    /\ recommendations[1].rank = <<1>>

\* the type names a snapshot
NamesSnapshot(type) == Occurs(<<"s", "n", "a", "p", "s", "h", "o", "t">>, type)

\* the type names a disk and no snapshot of one
NamesDisk(type) == Occurs(<<"d", "i", "s", "k">>, type) /\ ~NamesSnapshot(type)

\* the type has the word ip: alone, or set off by underscores
NamesIp(type) ==
    \E i \in 1..(Len(type) - 1) :
        /\ SubSeq(type, i, i + 1) = <<"i", "p">>
        /\ (i = 1 \/ type[i - 1] = "_")
        /\ (i + 1 = Len(type) \/ type[i + 2] = "_")

\* C19: an unused-resource recommendation is priced by its resource kind, a
\* disk at size_gb * 0.04, a snapshot at size_gb * 0.026, a static IP at a flat
\* 7 and any other type at 10, for every type identifier (every type naming
\* a snapshot gets the snapshot formula and only IP types get the flat 7);
\* its priority is MEDIUM iff the estimate is above 50, else LOW.
C19_UnusedResourceEstimate ==
    \A p \in Held("unused_resource") :
        LET type == lower(Get(added[p].type, <<>>))
            estimate == SavingsOf(recommendations[p])
        IN  /\ NamesSnapshot(type) => estimate = Get(added[p].size_gb, 50) * 26
            /\ NamesDisk(type) => estimate = Get(added[p].size_gb, 100) * 40
            /\ NamesIp(type) => estimate = 7000
            /\ (~NamesSnapshot(type) /\ ~NamesDisk(type) /\ ~NamesIp(type))
                   => estimate = 10000
            /\ recommendations[p].priority =
                   IF estimate > 50000 THEN MEDIUM ELSE LOW

\* C20: a cost-anomaly recommendation is CRITICAL iff the anomaly's severity
\* is 'high' and HIGH otherwise, a missing severity included; it carries no
\* estimate of monthly savings or increase and is never marked automatable.
C20_CostAnomalyPriority ==
    \A p \in Held("cost_anomaly") :
        /\ recommendations[p].priority =
               IF added[p].severity = <<"high">> THEN CRITICAL ELSE HIGH
        /\ recommendations[p].estimated_monthly_savings = <<>>
        /\ recommendations[p].estimated_monthly_increase = <<>>
        /\ recommendations[p].automation_possible = FALSE

\* a high-severity anomaly, ranked
C20_Witness ==
    /\ Ranked
    /\ \E p \in Held("cost_anomaly") :
           /\ added[p].severity = <<"high">>
           /\ recommendations[p].priority = CRITICAL
           /\ recommendations[p].rank = <<1>>

----------------------------------------------------------------------------
(* Daily totals and deviations (specification SpecCost)                    *)

\* the record has a 'date' or a 'collection_date'
Dated(record) == record.date # <<>> \/ record.collection_date # <<>>

\* the date part of 'date', else of 'collection_date'
CalendarDate(record) ==
    IF record.date # <<>> THEN record.date[1][1]
    ELSE IF record.collection_date # <<>> THEN record.collection_date[1][1]
    ELSE "none"

CalendarDates(data) == {CalendarDate(data[i]) : i \in {k \in 1..Len(data) : Dated(data[k])}}

\* the sum of the costs of one calendar date
TotalOn(data, day) ==
    SumSeq([k \in 1..Len(data) |->
               IF Dated(data[k]) /\ CalendarDate(data[k]) = day
               THEN Get(data[k].cost, 0) ELSE 0])

\* the sum of the costs of every dated record
TotalDated(data) ==
    SumSeq([k \in 1..Len(data) |-> IF Dated(data[k]) THEN Get(data[k].cost, 0) ELSE 0])

\* | total of the day - mean | / | mean | * 100 > x, for a mean other than 0
DeviatesBy(data, day, x) ==
    LET n == Cardinality(CalendarDates(data))
        sum == TotalDated(data)
    IN  /\ sum # 0
        /\ Abs(n * TotalOn(data, day) - sum) * 100 > x * Abs(sum)

\* C21: identify_anomalies sums the costs per calendar date; with fewer than
\* 2 distinct dates it returns an empty list; otherwise a date is reported iff
\* the absolute percentage deviation of its total from the mean of the daily
\* totals is strictly above the threshold, with severity 'high' iff that
\* deviation is above 50 and 'medium' otherwise; a mean of 0 gives none.
C21_AnomaliesByDeviation ==
    ( /\ Returned("identify_anomalies")
      /\ \A i \in 1..Len(call.billing_data) : ~IsText(call.billing_data[i]) )
    => LET data == call.billing_data
           days == CalendarDates(data)
           reported == {result.value[i].date : i \in 1..Len(result.value)}
       IN  IF Cardinality(days) < 2 THEN result.value = <<>>
           ELSE /\ reported = {d \in days : DeviatesBy(data, d, call.threshold_percentage)}
                /\ Len(result.value) = Cardinality(reported)
                /\ \A i \in 1..Len(result.value) :
                       result.value[i].severity =
                           IF DeviatesBy(data, result.value[i].date, 50)
                           THEN "high" ELSE "medium"

----------------------------------------------------------------------------
(* Breakdown by group (specification SpecCost)                             *)

\* the name a record is grouped under
NameOf(record) ==
    IF record.service_name = <<>> THEN "Unknown" ELSE record.service_name[1]

NamesOf(data) == {NameOf(data[i]) : i \in 1..Len(data)}

\* the sum of the costs of the records of one group
GroupTotal(data, name) ==
    SumSeq([k \in 1..Len(data) |->
               IF NameOf(data[k]) = name THEN Get(data[k].cost, 0) ELSE 0])

\* C22: analyze_cost_trends returns status 'no_data' for empty input; for
\* non-empty input it returns status 'success' with one breakdown entry per
\* distinct group name (records without the name under 'Unknown'), each
\* entry's cost the sum of its records' costs, entries in non-increasing cost
\* order, total_cost the sum of all costs and top_cost_driver the name of a
\* group of maximum cost.
C22_CostTrends ==
    ( /\ Returned("analyze_cost_trends")
      /\ \A i \in 1..Len(call.billing_data) : ~IsText(call.billing_data[i]) )
    => LET data == call.billing_data
           value == result.value
       IN  IF data = <<>> THEN value.status = <<"no_data">>
           ELSE /\ value.status = <<"success">>
                /\ Len(value.breakdown) = Cardinality(NamesOf(data))
                /\ {value.breakdown[k].name : k \in 1..Len(value.breakdown)} = NamesOf(data)
                /\ \A k \in 1..Len(value.breakdown) :
                       value.breakdown[k].cost =
                           100 * GroupTotal(data, value.breakdown[k].name)
                /\ \A k \in 1..(Len(value.breakdown) - 1) :
                       value.breakdown[k].cost >= value.breakdown[k + 1].cost
                /\ value.total_cost = 100 * TotalOf(data)
                /\ \E name \in NamesOf(data) :
                       /\ value.top_cost_driver = <<name>>
                       /\ \A other \in NamesOf(data) :
                              GroupTotal(data, other) <= GroupTotal(data, name)

\* three groups, one of them 'Unknown', the first record's group not the top
C22_Witness ==
    /\ Returned("analyze_cost_trends")
    /\ result.value.status = <<"success">>
    /\ Len(call.billing_data) = 4
    /\ Len(result.value.breakdown) = 3
    /\ "Unknown" \in NamesOf(call.billing_data)
    /\ result.value.top_cost_driver # <<NameOf(call.billing_data[1])>>
    /\ result.value.breakdown[1].cost > result.value.breakdown[2].cost

----------------------------------------------------------------------------
(* Efficiency grades (specification SpecCost)                              *)

\* C23: calculate_resource_efficiency returns utilization_rate =
\* (total - idle) / total * 100 (to the hundredth) for the lengths total and
\* idle of the two lists, and 0 when total is 0; efficiency_grade is A for a
\* rate of at least 90, B for at least 80, C for at least 70, D for at least
\* 60 and F otherwise; total 10 with idle 1 gives 90.0 and 'A', total 0 gives
\* 'F'.
C23_EfficiencyGrade ==
    (Returned("calculate_resource_efficiency") /\ result.value.status = <<>>) =>
        LET total == Len(call.resources[1])
            idle == Len(call.idle_resources[1])
            rate == result.value.utilization_rate
            grade == result.value.efficiency_grade
            AtLeast(x) == total # 0 /\ (total - idle) * 100 >= x * total
        IN  /\ total = 0 => (rate = 0 /\ grade = "F")
            /\ total # 0 => 2 * Abs(rate * total - (total - idle) * 10000) <= total
            /\ (grade = "A") <=> AtLeast(90)
            /\ (grade = "B") <=> (AtLeast(80) /\ ~AtLeast(90))
            /\ (grade = "C") <=> (AtLeast(70) /\ ~AtLeast(80))
            /\ (grade = "D") <=> (AtLeast(60) /\ ~AtLeast(70))
            /\ (grade = "F") <=> ~AtLeast(60)
            /\ (total = 10 /\ idle = 1) => (rate = 9000 /\ grade = "A")

\* ten resources, one idle
C23_Witness ==
    /\ Returned("calculate_resource_efficiency")
    /\ result.value.status = <<>>
    /\ Len(call.resources[1]) = 10
    /\ Len(call.idle_resources[1]) = 1
    /\ result.value.efficiency_grade = "A"

----------------------------------------------------------------------------
(* Properties of the base collector (specification SpecCollector)          *)

\* C25: validate_config returns True iff every field named by
\* get_required_config_fields is a key of the config, and False as soon as
\* one is missing (the first missing field is the only one reported); it
\* does not modify the config.
C25_ValidateConfig ==
    /\ [](outcome.fn = "validate_config" =>
            LET Missing(k) ==
                    \/ required_fields[k] \notin DOMAIN config
                    \/ config[required_fields[k]] = <<>>
                missing == {k \in 1..Len(required_fields) : Missing(k)}
            IN  /\ outcome.value = (missing = {})
                /\ missing = {} => outcome.logged = <<>>
                /\ missing # {} =>
                       \E k \in missing :
                           /\ \A j \in missing : k <= j
                           /\ outcome.logged = <<required_fields[k]>>)
    /\ [][outcome'.fn = "validate_config" => config' = config]_vars

\* two required fields, the second one missing
C25_Witness ==
    /\ outcome.fn = "validate_config"
    /\ outcome.value = FALSE
    /\ Len(required_fields) = 2
    /\ outcome.logged = <<required_fields[2]>>

\* C26: get_cost_by_service returns a mapping whose keys are exactly the
\* distinct service names of the collected records (records without one
\* under 'Unknown') and whose value for each key is the sum of the costs of
\* the records with that service name.
C26_CostByService ==
    (outcome.fn = "get_cost_by_service" /\ outcome.kind = "dict") =>
        LET data == outcome.billing_data
            mapping == outcome.value
        IN  /\ {mapping[k].name : k \in 1..Len(mapping)} = NamesOf(data)
            /\ Len(mapping) = Cardinality(NamesOf(data))
            /\ \A k \in 1..Len(mapping) :
                   mapping[k].cost = GroupTotal(data, mapping[k].name)

\* costs 1.50 and 2.50 of service A: A 4.00
C26_Witness ==
    /\ outcome.fn = "get_cost_by_service"
    /\ outcome.kind = "dict"
    /\ Len(outcome.billing_data) = 2
    /\ outcome.value = <<[cost |-> 400, name |-> "A"]>>

----------------------------------------------------------------------------
(* Properties of the GCP collector (specification SpecGcp)                 *)

CollectingMethods ==
    {"collect_billing_data", "collect_resource_data", "get_idle_compute_instances"}

\* C28: in every state where no call of authenticate() has returned True
\* (never called, or every call returned False, a call whose test request
\* failed included), collect_billing_data, collect_resource_data and
\* get_idle_compute_instances raise the 'Not authenticated' RuntimeError
\* instead of contacting the cloud API.
C28_NoCollectionBeforeAuthentication ==
    (~authenticated /\ outcome.fn \in CollectingMethods) =>
        /\ outcome.kind = "raise"
        /\ outcome.value = "RuntimeError"
        /\ ~outcome.contacted

----------------------------------------------------------------------------
(* The held list (specification Spec)                                      *)

\* the name an input record gives to its recommendation
NameOfItem(op, item) ==
    CASE op = "add_idle_instance_recommendations" -> item.name
      [] op = "add_rightsizing_recommendations" -> item.instance_name
      [] op = "add_unused_resource_recommendations" -> item.name
      [] op = "add_cost_anomaly_recommendations" -> item.date

\* a held dict without the two keys that ranking writes
Unranked(rec) == [rec EXCEPT !.rank = <<>>, !.priority_label = <<>>]

\* C27: the held list changes only through add_* and clear_recommendations:
\* an add_* call appends one recommendation per input record, in input order,
\* after the existing ones, which it leaves unchanged;
\* get_prioritized_recommendations and get_summary_statistics never add,
\* remove or reorder the held list, so earlier recommendations stay in later
\* results until clear_recommendations is called.
C27_HeldListFrame ==
    [][ /\ lastOp' \in AddOps =>
              /\ Len(recommendations') = Len(recommendations) + Len(added') - Len(added)
              /\ SubSeq(recommendations', 1, Len(recommendations)) = recommendations
              /\ SubSeq(added', 1, Len(added)) = added
              /\ \A p \in (Len(recommendations) + 1)..Len(recommendations') :
                     recommendations'[p].resource_name = NameOfItem(lastOp', added'[p])
        /\ lastOp' \in {"get_prioritized_recommendations", "get_summary_statistics"} =>
              /\ Len(recommendations') = Len(recommendations)
              /\ \A p \in 1..Len(recommendations) :
                     Unranked(recommendations'[p]) = Unranked(recommendations[p])
        /\ ( /\ lastOp' = "get_prioritized_recommendations"
             /\ max_recommendations' = <<>>
             /\ min_savings' = 0 ) =>
              {returned'[i] : i \in 1..Len(returned')} = 1..Len(recommendations)
        /\ lastOp' = "clear_recommendations" => recommendations' = <<>>
      ]_vars

\* recommendations of two add_* calls, all of them in the ranked result
C27_Witness ==
    /\ Ranked
    /\ Len(recommendations) = 3
    /\ Len(returned) = 3
    /\ recommendations[1].type # recommendations[3].type
    /\ recommendations[1].resource_name # recommendations[2].resource_name

----------------------------------------------------------------------------
(* Recommendations without savings (specification SpecProducers)           *)

\* the held cost-anomaly recommendations and upsize recommendations
WithoutSavings ==
    Held("cost_anomaly")
    \cup {p \in Held("rightsizing") : added[p].recommendation_type = "upsize"}

\* C29: cost-anomaly recommendations and upsize rightsizing recommendations
\* always carry estimated_monthly_savings of 0 (absent or defaulted), so an
\* upsize recommendation always gets priority LOW, and
\* get_prioritized_recommendations with any min_savings above 0 returns none
\* of them, even anomalies of priority CRITICAL; with min_savings = 0 (and no
\* limit) all of them are returned.
C29_NoSavingsFilteredOut ==
    /\ \A p \in WithoutSavings :
           /\ recommendations[p].estimated_monthly_savings \in {<<>>, <<0>>}
           /\ recommendations[p].type = "rightsizing" => recommendations[p].priority = LOW
    /\ (Ranked /\ min_savings > 0) =>
           \A i \in 1..Len(returned) : returned[i] \notin WithoutSavings
    /\ (Ranked /\ min_savings = 0 /\ max_recommendations = <<>>) =>
           \A p \in WithoutSavings : \E i \in 1..Len(returned) : returned[i] = p

\* a CRITICAL anomaly asked for with min_savings of one cent: nothing returned
C29_Witness ==
    /\ Ranked
    /\ min_savings = 10
    /\ \E p \in WithoutSavings : recommendations[p].priority = CRITICAL
    /\ returned = <<>>

====
